---- MODULE Spec2Model ----
(***************************************************************************)
(* Model of the farm data record manager: FarmDataRecord objects, the      *)
(* FarmDataService that owns the in-memory record list, and the callers    *)
(* that hold references to what the Service hands out; the SearchEngine    *)
(* that filters a tabular snapshot of the records; and the                 *)
(* FarmDataRepository that writes the records to CSV files and reads them  *)
(* back.                                                                   *)
(*                                                                         *)
(* Python str values are sequences of one-character strings, so lower(),   *)
(* strip(), float() and string comparison are computed character by        *)
(* character.  Python objects live in a heap: a record is a reference      *)
(* (a positive integer) into `heap`, and a list is a sequence of           *)
(* references, so two lists can share the same record object.              *)
(***************************************************************************)
EXTENDS Integers, Sequences, FiniteSets, TLC

VARIABLES heap, farm_records, call,
          df, last_results, search_history,
          files, source_filename, result

vars == <<heap, farm_records, call,
          df, last_results, search_history,
          files, source_filename, result>>

\* the SearchEngine's attributes
engine_vars == <<df, last_results, search_history>>

\* the file system, and the Service's record of the file it loaded
store_vars == <<files, source_filename>>

\* everything but the record objects, the Service's list and the last call
others == <<engine_vars, store_vars, result>>

(***************************************************************************)
(* Bounds of the model.                                                    *)
(***************************************************************************)
\* longest record list the model builds
MaxLen == 3
\* how many record objects may have been changed through a setter
MaxMutated == 1
\* longest search history the model lets a SearchEngine collect
MaxHistory == 2
\* longest list of records the callers of the Repository put together by hand
MaxSaved == 2

(***************************************************************************)
(* Python str                                                              *)
(***************************************************************************)
\* ord(c) for the characters the modelled texts are written in
Ord(c) ==
    CASE c = " " -> 32
      [] c = "-" -> 45
      [] c = "0" -> 48
      [] c = "1" -> 49
      [] c = "2" -> 50
      [] c = "9" -> 57
      [] c = "A" -> 65
      [] c = "B" -> 66
      [] c = "a" -> 97
      [] c = "b" -> 98

IsDigit(c) == c \in {"0", "1", "2", "9"}

IsSpace(c) == c = " "

\* str.lower() on one character
LowerChar(c) ==
    CASE c = "A" -> "a"
      [] c = "B" -> "b"
      [] OTHER -> c

\* str.lower()
Lower(s) == [i \in 1..Len(s) |-> LowerChar(s[i])]

\* str.strip()
Strip(s) ==
    LET keep == {i \in 1..Len(s) : ~IsSpace(s[i])}
    IN  IF keep = {} THEN <<>>
        ELSE SubSeq(s,
                    CHOOSE i \in keep : \A j \in keep : i <= j,
                    CHOOSE i \in keep : \A j \in keep : j <= i)

\* a < b on str: lexicographic by code point
RECURSIVE StrLess(_, _)
StrLess(a, b) ==
    IF b = <<>> THEN FALSE
    ELSE IF a = <<>> THEN TRUE
    ELSE IF Head(a) = Head(b) THEN StrLess(Tail(a), Tail(b))
    ELSE Ord(Head(a)) < Ord(Head(b))

\* the value of a digit string, most significant digit first
RECURSIVE DigitsValue(_)
DigitsValue(s) ==
    IF s = <<>> THEN 0
    ELSE 10 * DigitsValue(SubSeq(s, 1, Len(s) - 1)) + (Ord(s[Len(s)]) - Ord("0"))

\* float(s): [ok |-> FALSE] stands for ValueError.  Over the modelled
\* characters a text is a number iff it is an optional "-" and then digits.
PyFloat(s) ==
    LET t == Strip(s)
        neg == t # <<>> /\ Head(t) = "-"
        digits == IF neg THEN Tail(t) ELSE t
    IN  IF digits # <<>> /\ \A i \in 1..Len(digits) : IsDigit(digits[i])
        THEN [ok |-> TRUE,
              val |-> IF neg THEN 0 - DigitsValue(digits) ELSE DigitsValue(digits)]
        ELSE [ok |-> FALSE, val |-> 0]

(***************************************************************************)
(* FarmDataRecord                                                          *)
(***************************************************************************)
Fields ==
    {"ref_date", "geo", "dguid", "area_production_farm_value", "uom", "uom_id",
     "scalar_factor", "scalar_id", "vector", "coordinate", "value", "status",
     "symbol", "terminated", "decimals"}

\* FarmDataRecord(**kw): every field not supplied defaults to ""
FarmDataRecord(kw) == [f \in Fields |-> IF f \in DOMAIN kw THEN kw[f] ELSE <<>>]

\* record.<field> = text
SetField(rec, f, text) == [rec EXCEPT ![f] = text]

\* The record objects the caller has constructed.
Pool ==
    << FarmDataRecord([ref_date |-> <<"2">>, geo |-> <<"b">>, dguid |-> <<"b">>,
                       value |-> <<"1", "0">>, coordinate |-> <<"2">>]),
       FarmDataRecord([ref_date |-> <<"1">>, geo |-> <<"B">>, dguid |-> <<"a">>,
                       value |-> <<"2">>, coordinate |-> <<"1", "0">>]),
       FarmDataRecord([ref_date |-> <<"1">>, geo |-> <<"a">>,
                       value |-> <<" ">>, coordinate |-> <<"-", "1">>]),
       FarmDataRecord([ref_date |-> <<"1">>, geo |-> <<"A">>,
                       value |-> <<"a">>, coordinate |-> <<>>]) >>

Refs == 1..Len(Pool)

\* None, where a record reference is expected
NoneRef == 0

(***************************************************************************)
(* Python list and sorted()                                                *)
(***************************************************************************)
Reverse(s) == [i \in 1..Len(s) |-> s[Len(s) + 1 - i]]

\* s[:k]
SlicePrefix(s, k) ==
    IF k >= 0
    THEN SubSeq(s, 1, IF k < Len(s) THEN k ELSE Len(s))
    ELSE SubSeq(s, 1, IF Len(s) + k > 0 THEN Len(s) + k ELSE 0)

\* A sort key is a tuple (primary, ref_date) whose primary component is a
\* float (num) or a str; get_top_n_records sorts by the primary alone.
NumKey(n, date) == [num |-> TRUE, n |-> n, s |-> <<>>, date |-> date]

StrKey(s, date) == [num |-> FALSE, n |-> 0, s |-> s, date |-> date]

\* k1 < k2 on key tuples: the first component that differs decides
TupleLess(k1, k2) ==
    IF k1.num /\ k1.n # k2.n THEN k1.n < k2.n
    ELSE IF ~k1.num /\ k1.s # k2.s THEN StrLess(k1.s, k2.s)
    ELSE StrLess(k1.date, k2.date)

\* One step of list.sort's insertion: x goes behind the last element of the
\* sorted run t that x's key is not less than.
InsertSorted(t, x, key) ==
    LET notAfter == {j \in 1..Len(t) : ~TupleLess(key[x], key[t[j]])}
        l == IF notAfter = {} THEN 0
             ELSE CHOOSE j \in notAfter : \A k \in notAfter : k <= j
    IN  SubSeq(t, 1, l) \o <<x>> \o SubSeq(t, l + 1, Len(t))

\* list.sort without reverse: insert the elements one by one, left to right
StableSort(s, key) ==
    LET run[k \in 0..Len(s)] ==
            IF k = 0 THEN <<>> ELSE InsertSorted(run[k - 1], s[k], key)
    IN  run[Len(s)]

\* The descending order as "sort ascending, then reverse": not what sorted() does.
PySortedReverseAfter(s, key, reverse) ==
    IF reverse THEN Reverse(StableSort(s, key)) ELSE StableSort(s, key)

\* sorted() called without the reverse argument
PySortedNoReverse(s, key, reverse) == StableSort(s, key)

\* sorted(s, key=..., reverse=...), key given as the key of each element: with
\* reverse the list is reversed, sorted and reversed again, which keeps equal
\* elements in their original order.
PySorted(s, key, reverse) ==
    IF reverse THEN Reverse(StableSort(Reverse(s), key)) ELSE StableSort(s, key)

(***************************************************************************)
(* FarmDataService                                                         *)
(***************************************************************************)
valid_fields ==
    {"ref_date", "geo", "area_production_farm_value", "value", "uom", "vector",
     "coordinate"}

NumericFields == {"value", "coordinate"}

\* _safe_numeric_convert
SafeNumericConvert(value) ==
    IF Strip(value) # <<>>
    THEN (IF PyFloat(Strip(value)).ok THEN PyFloat(Strip(value)).val ELSE 0)
    ELSE 0

\* The sort key without the numeric conversion and without lower().
SortKeyRaw(rec, sort_by) == StrKey(rec[sort_by], rec["ref_date"])

\* The key sort_records sorts by
SortKey(rec, sort_by) ==
    IF sort_by \in NumericFields
    THEN NumKey(SafeNumericConvert(rec[sort_by]), rec["ref_date"])
    ELSE StrKey(Lower(rec[sort_by]), rec["ref_date"])

\* record_count
record_count(fr) == Len(fr)

\* get_all_records: a new list holding the same record objects
get_all_records(fr) == [out |-> fr, alias |-> FALSE]

\* get_record_by_index
get_record_by_index(fr, index) ==
    IF 0 <= index /\ index < Len(fr) THEN fr[index + 1] ELSE NoneRef

\* add_record, putting the record first instead of last
add_record_first(fr, record) == [records |-> <<record>> \o fr, ret |-> TRUE]

\* add_record
add_record(fr, record) == [records |-> Append(fr, record), ret |-> TRUE]

\* update_record without the lower bound: a negative index counts from the end
update_record_no_lower_bound(fr, index, record) ==
    IF index < Len(fr) /\ 0 - Len(fr) <= index
    THEN [records |-> [fr EXCEPT ![IF index < 0 THEN Len(fr) + index + 1
                                    ELSE index + 1] = record],
          ret |-> TRUE]
    ELSE [records |-> fr, ret |-> FALSE]

\* update_record
update_record(fr, index, record) ==
    IF 0 <= index /\ index < Len(fr)
    THEN [records |-> [fr EXCEPT ![index + 1] = record], ret |-> TRUE]
    ELSE [records |-> fr, ret |-> FALSE]

\* delete_record that always removes the last record
delete_record_last(fr, index) ==
    IF 0 <= index /\ index < Len(fr)
    THEN [records |-> SubSeq(fr, 1, Len(fr) - 1), ret |-> TRUE]
    ELSE [records |-> fr, ret |-> FALSE]

\* delete_record
delete_record(fr, index) ==
    IF 0 <= index /\ index < Len(fr)
    THEN [records |-> SubSeq(fr, 1, index) \o SubSeq(fr, index + 2, Len(fr)),
          ret |-> TRUE]
    ELSE [records |-> fr, ret |-> FALSE]

\* sort_records without the check of the field name: any attribute sorts
sort_records_unchecked(fr, hp, sort_by, ascending) ==
    IF sort_by \notin Fields /\ fr # <<>>
    THEN [records |-> fr, ret |-> FALSE]
    ELSE [records |-> PySorted(fr, [o \in DOMAIN hp |-> SortKey(hp[o], sort_by)],
                               ~ascending),
          ret |-> TRUE]

\* sort_records that keeps one record per key, as sorting through a dict
\* keyed by the sort key would
sort_records_one_per_key(fr, hp, sort_by, ascending) ==
    LET key == [o \in DOMAIN hp |-> SortKey(hp[o], sort_by)]
        keep == {i \in 1..Len(fr) : \A j \in 1..(i - 1) : key[fr[j]] # key[fr[i]]}
        kept == [j \in 1..Cardinality(keep) |->
                    fr[CHOOSE i \in keep : Cardinality({k \in keep : k <= i}) = j]]
    IN  IF sort_by \notin valid_fields
        THEN [records |-> fr, ret |-> FALSE]
        ELSE [records |-> PySorted(kept, key, ~ascending), ret |-> TRUE]

\* sort_records: the three branches differ only in the key, which SortKey
\* computes; the keys are str or float, so the sort itself never raises.
sort_records(fr, hp, sort_by, ascending) ==
    IF sort_by \notin valid_fields
    THEN [records |-> fr, ret |-> FALSE]
    ELSE [records |-> PySorted(fr, [o \in DOMAIN hp |-> SortKey(hp[o], sort_by)],
                               ~ascending),
          ret |-> TRUE]

\* The key get_top_n_records sorts by: the number for 'value', else the text
\* of the attribute as it is (attrgetter)
TopNKey(rec, sort_by) ==
    IF sort_by = "value"
    THEN NumKey(SafeNumericConvert(rec[sort_by]), <<>>)
    ELSE StrKey(rec[sort_by], <<>>)

\* get_top_n_records that sorts the live list
get_top_n_records_in_place(fr, hp, n, sort_by, ascending) ==
    LET temp_records ==
            PySorted(fr, [o \in DOMAIN hp |-> TopNKey(hp[o], sort_by)], ~ascending)
    IN  IF sort_by \notin Fields /\ fr # <<>>
        THEN [records |-> fr, raised |-> TRUE, out |-> <<>>]
        ELSE [records |-> temp_records, raised |-> FALSE,
              out |-> SlicePrefix(temp_records,
                                  IF n < Len(temp_records) THEN n
                                  ELSE Len(temp_records))]

\* get_top_n_records that returns one record more
get_top_n_records_one_more(fr, hp, n, sort_by, ascending) ==
    LET temp_records ==
            PySorted(fr, [o \in DOMAIN hp |-> TopNKey(hp[o], sort_by)], ~ascending)
    IN  IF sort_by \notin Fields /\ fr # <<>>
        THEN [records |-> fr, raised |-> TRUE, out |-> <<>>]
        ELSE [records |-> fr, raised |-> FALSE,
              out |-> SlicePrefix(temp_records, n + 1)]

\* get_top_n_records: attrgetter raises AttributeError for a name that is no
\* attribute of the record, as soon as there is a record to take the key of.
get_top_n_records(fr, hp, n, sort_by, ascending) ==
    LET temp_records ==
            PySorted(fr, [o \in DOMAIN hp |-> TopNKey(hp[o], sort_by)], ~ascending)
    IN  IF sort_by \notin Fields /\ fr # <<>>
        THEN [records |-> fr, raised |-> TRUE, out |-> <<>>]
        ELSE [records |-> fr, raised |-> FALSE,
              out |-> SlicePrefix(temp_records,
                                  IF n < Len(temp_records) THEN n
                                  ELSE Len(temp_records))]

(***************************************************************************)
(* State                                                                   *)
(*   heap          the FarmDataRecord objects, by reference                *)
(*   farm_records  FarmDataService._farm_records, a list of references     *)
(*   call          the last call made: its name, its arguments and what it *)
(*                 returned to the caller                                  *)
(*   df, last_results, search_history                                      *)
(*                 SearchEngine._df, ._last_results and ._search_history   *)
(*   files         the file system: what is stored under each path         *)
(*   source_filename  FarmDataService._source_filename                     *)
(*   result        what the last SearchEngine, Repository or Service       *)
(*                 query returned                                          *)
(***************************************************************************)
NoCall ==
    [op |-> "init", index |-> 0, record |-> NoneRef, sort_by |-> "",
     ascending |-> TRUE, n |-> 0, ok |-> FALSE, ref |-> NoneRef, out |-> <<>>,
     alias |-> FALSE, raised |-> FALSE, after_asc |-> FALSE]

\* the record values of the live collection, in order
Live == [i \in 1..Len(farm_records) |-> heap[farm_records[i]]]

\* the objects that no longer hold what they were constructed with
Mutated == {o \in Refs : heap[o] # Pool[o]}

\* None, where a DataFrame is expected
NoneTable == [none |-> TRUE, rows |-> <<>>]

\* a DataFrame that holds the given rows
Table(rows) == [none |-> FALSE, rows |-> rows]

\* None, where a file name is expected
NoneName == "None"

\* the paths the callers load from and save to
Paths == {"a.csv", "b.csv"}

\* a path under which nothing is stored yet and a file can be created
NoFile ==
    [exists |-> FALSE, readable |-> TRUE, writable |-> TRUE,
     decodable |-> TRUE, text |-> <<>>]

\* no query made yet: its arguments, and what it returned
NoResult ==
    [conditions |-> <<>>, boolean_op |-> "AND", refine_previous |-> FALSE,
     path |-> NoneName, max_records |-> 0, defaulted |-> FALSE, term |-> <<>>,
     start_index |-> 0, end_index |-> 0, cleared |-> 0,
     alias |-> FALSE,
     ok |-> FALSE, raised |-> FALSE, records |-> <<>>, pairs |-> <<>>,
     table |-> NoneTable]

\* no SearchEngine query made, nothing stored, nothing loaded
InitOthers ==
    /\ df = <<>>
    /\ last_results = NoneTable
    /\ search_history = <<>>
    /\ files = [p \in Paths |-> NoFile]
    /\ source_filename = NoneName
    /\ result = NoResult

\* FarmDataService.__init__, and the records the caller has constructed
Init ==
    /\ heap = [o \in Refs |-> Pool[o]]
    /\ farm_records = <<>>
    /\ call = NoCall
    /\ InitOthers

\* a Service that holds any list of up to MaxLen of the caller's records
InitLoaded ==
    /\ heap = [o \in Refs |-> Pool[o]]
    /\ farm_records \in UNION {[1..k -> Refs] : k \in 0..MaxLen}
    /\ call = NoCall
    /\ InitOthers

AddRecord(r) ==
    /\ Len(farm_records) < MaxLen
    /\ farm_records' = add_record(farm_records, r).records
    /\ call' = [NoCall EXCEPT !.op = "add_record", !.record = r,
                              !.ok = add_record(farm_records, r).ret]
    /\ UNCHANGED heap
    /\ UNCHANGED others

UpdateRecord(i, r) ==
    /\ farm_records' = update_record(farm_records, i, r).records
    /\ call' = [NoCall EXCEPT !.op = "update_record", !.index = i, !.record = r,
                              !.ok = update_record(farm_records, i, r).ret]
    /\ UNCHANGED heap
    /\ UNCHANGED others

DeleteRecord(i) ==
    /\ farm_records' = delete_record(farm_records, i).records
    /\ call' = [NoCall EXCEPT !.op = "delete_record", !.index = i,
                              !.ok = delete_record(farm_records, i).ret]
    /\ UNCHANGED heap
    /\ UNCHANGED others

GetRecordByIndex(i) ==
    /\ call' = [NoCall EXCEPT !.op = "get_record_by_index", !.index = i,
                              !.ref = get_record_by_index(farm_records, i)]
    /\ UNCHANGED <<heap, farm_records>>
    /\ UNCHANGED others

GetAllRecords ==
    /\ call' = [NoCall EXCEPT !.op = "get_all_records",
                              !.out = get_all_records(farm_records).out,
                              !.alias = get_all_records(farm_records).alias]
    /\ UNCHANGED <<heap, farm_records>>
    /\ UNCHANGED others

SortRecords(sort_by, ascending) ==
    LET r == sort_records(farm_records, heap, sort_by, ascending)
    IN  /\ farm_records' = r.records
        /\ call' = [NoCall EXCEPT
                      !.op = "sort_records", !.sort_by = sort_by,
                      !.ascending = ascending, !.ok = r.ret,
                      !.after_asc = /\ call.op = "sort_records"
                                    /\ call.ok
                                    /\ call.ascending
                                    /\ call.sort_by = sort_by]
        /\ UNCHANGED heap
        /\ UNCHANGED others

GetTopNRecords(n, sort_by, ascending) ==
    LET r == get_top_n_records(farm_records, heap, n, sort_by, ascending)
    IN  /\ farm_records' = r.records
        /\ call' = [NoCall EXCEPT
                      !.op = "get_top_n_records", !.n = n, !.sort_by = sort_by,
                      !.ascending = ascending, !.raised = r.raised,
                      !.out = r.out]
        /\ UNCHANGED heap
        /\ UNCHANGED others

\* the record references the last read handed to the caller
Handed ==
    IF call.op = "get_record_by_index" THEN {call.ref} \ {NoneRef}
    ELSE IF call.op \in {"get_all_records", "get_top_n_records"}
    THEN {call.out[i] : i \in 1..Len(call.out)}
    ELSE {}

\* The caller sets a field of a record a read handed out: record.value = text
SetterOnHanded(o, f, text) ==
    /\ o \in Handed
    /\ o \in Mutated \/ Cardinality(Mutated) < MaxMutated
    /\ heap' = [heap EXCEPT ![o] = SetField(heap[o], f, text)]
    /\ call' = [NoCall EXCEPT !.op = "setter", !.record = o]
    /\ UNCHANGED farm_records
    /\ UNCHANGED others

\* The caller removes the last element of the list get_all_records returned:
\* the live list changes only if the returned list is the live list object.
PopHandedList ==
    /\ call.op \in {"get_all_records", "list_pop"}
    /\ call.out # <<>>
    /\ call' = [call EXCEPT !.op = "list_pop",
                            !.out = SubSeq(call.out, 1, Len(call.out) - 1)]
    /\ farm_records' = IF call.alias THEN SubSeq(call.out, 1, Len(call.out) - 1)
                       ELSE farm_records
    /\ UNCHANGED heap
    /\ UNCHANGED others

\* the indices the callers try: every valid one, and some on either side
IndexArgs == (0 - 2)..MaxLen

Next ==
    \/ \E r \in Refs : AddRecord(r)
    \/ \E i \in IndexArgs, r \in Refs : UpdateRecord(i, r)
    \/ \E i \in IndexArgs : DeleteRecord(i)
    \/ \E i \in IndexArgs : GetRecordByIndex(i)
    \/ GetAllRecords
    \/ \E f \in {"value", "invalid_field"}, asc \in BOOLEAN : SortRecords(f, asc)
    \/ GetTopNRecords(1, "value", FALSE)
    \/ \E o \in Refs : SetterOnHanded(o, "value", <<"9">>)
    \/ PopHandedList

Spec == Init /\ [][Next]_vars

\* sort_records and get_top_n_records on every collection of up to MaxLen records
NextSort ==
    \/ \E f \in {"value", "coordinate", "geo", "ref_date", "uom", "dguid",
                 "invalid_field"},
          asc \in BOOLEAN :
          SortRecords(f, asc)
    \/ \E n \in {0 - 1, 0, 1, 2, MaxLen + 1},
          f \in {"value", "geo", "invalid_field"},
          asc \in BOOLEAN :
          GetTopNRecords(n, f, asc)

SortSpec == InitLoaded /\ [][NextSort]_vars

(***************************************************************************)
(* Claims about the Service's record list                                  *)
(***************************************************************************)
\* how often reference o occurs in list s
Count(s, o) == Cardinality({i \in 1..Len(s) : s[i] = o})

\* C1: add_record(r) returns true, grows record_count by exactly 1, leaves
\* every existing record at its index, and get_record_by_index(record_count-1)
\* then returns r.
C1_AddAppends ==
    [][call'.op = "add_record" =>
          /\ call'.ok
          /\ record_count(farm_records') = record_count(farm_records) + 1
          /\ \A i \in 0..(record_count(farm_records) - 1) :
                get_record_by_index(farm_records', i) =
                    get_record_by_index(farm_records, i)
          /\ heap' = heap
          /\ get_record_by_index(farm_records', record_count(farm_records') - 1)
                = call'.record]_vars

\* an add_record on a collection that already held two other records
C1_Witness ==
    /\ call.op = "add_record"
    /\ Len(farm_records) = 3
    /\ farm_records[3] = call.record
    /\ farm_records[1] # call.record
    /\ farm_records[2] # farm_records[1]

\* C2: for a valid index i, delete_record(i) returns true, shrinks
\* record_count by 1, leaves the records below i where they were and shifts
\* every record above i down by one; get_record_by_index(i) afterwards is the
\* record previously at i+1, or None if i was the last index.
C2_DeleteShifts ==
    [][(/\ call'.op = "delete_record"
        /\ 0 <= call'.index
        /\ call'.index < record_count(farm_records)) =>
          /\ call'.ok
          /\ record_count(farm_records') = record_count(farm_records) - 1
          /\ \A i \in 0..(call'.index - 1) :
                get_record_by_index(farm_records', i) =
                    get_record_by_index(farm_records, i)
          /\ \A i \in call'.index..(record_count(farm_records) - 2) :
                get_record_by_index(farm_records', i) =
                    get_record_by_index(farm_records, i + 1)
          /\ IF call'.index = record_count(farm_records) - 1
             THEN get_record_by_index(farm_records', call'.index) = NoneRef
             ELSE get_record_by_index(farm_records', call'.index) =
                     get_record_by_index(farm_records, call'.index + 1)
          /\ heap' = heap]_vars

\* a delete in the middle: a record is left on either side of the gap
C2_Witness ==
    /\ call.op = "delete_record"
    /\ call.ok
    /\ call.index = 1
    /\ Len(farm_records) = 2
    /\ farm_records[1] # farm_records[2]

\* C3: for an index outside 0..record_count-1, negative ones included,
\* update_record and delete_record return false without raising and leave the
\* collection (contents, order, count) unchanged, and get_record_by_index
\* returns None.
C3_InvalidIndex ==
    [][(call'.index < 0 \/ call'.index >= record_count(farm_records)) =>
          /\ call'.op \in {"update_record", "delete_record"} =>
                /\ ~call'.ok
                /\ ~call'.raised
                /\ farm_records' = farm_records
                /\ heap' = heap
          /\ call'.op = "get_record_by_index" =>
                /\ call'.ref = NoneRef
                /\ ~call'.raised]_vars

\* an update with a negative index on a collection that holds records
C3_Witness ==
    /\ call.op = "update_record"
    /\ call.index < 0
    /\ ~call.ok
    /\ Len(farm_records) >= 2
    /\ call.record \notin {farm_records[i] : i \in 1..Len(farm_records)}

(***************************************************************************)
(* Claims about sort_records and get_top_n_records                         *)
(***************************************************************************)
\* a <= b on str
StrLeq(a, b) == ~StrLess(b, a)

\* The number a numeric field counts as: its value when the text is a number,
\* 0 when it is empty, whitespace only or not a number.
NumericValueOf(text) == IF PyFloat(text).ok THEN PyFloat(text).val ELSE 0

\* record a is not after record b in the order by (primary key, ref_date)
PairLeq(a, b, f) ==
    IF f \in {"value", "coordinate"}
    THEN \/ NumericValueOf(a[f]) < NumericValueOf(b[f])
         \/ /\ NumericValueOf(a[f]) = NumericValueOf(b[f])
            /\ StrLeq(a["ref_date"], b["ref_date"])
    ELSE \/ StrLess(Lower(a[f]), Lower(b[f]))
         \/ /\ Lower(a[f]) = Lower(b[f])
            /\ StrLeq(a["ref_date"], b["ref_date"])

\* the records of list fr have pairwise distinct sort keys for field f
DistinctKeys(fr, f) ==
    \A i, j \in 1..Len(fr) :
        i # j => SortKey(heap[fr[i]], f) # SortKey(heap[fr[j]], f)

\* C4: sort_records with a field name outside the recognised sortable set
\* returns false and leaves the collection's contents and order unchanged.
C4_SortInvalidField ==
    [][(call'.op = "sort_records" /\ call'.sort_by \notin valid_fields) =>
          /\ ~call'.ok
          /\ farm_records' = farm_records
          /\ heap' = heap]_vars

\* a refused sort by an attribute the records do have, on a list that a sort
\* by it would reorder
C4_Witness ==
    /\ call.op = "sort_records"
    /\ call.sort_by = "dguid"
    /\ ~call.ok
    /\ farm_records = <<1, 2>>

\* C5: on records with pairwise distinct sort keys for the field, an ascending
\* sort_records followed by a descending one on the same field leaves the
\* collection in exactly the reverse of the ascending order.
C5_AscThenDescReverses ==
    [][(/\ call.op = "sort_records"
        /\ call.ok
        /\ call.ascending
        /\ call'.op = "sort_records"
        /\ call'.sort_by = call.sort_by
        /\ ~call'.ascending
        /\ DistinctKeys(farm_records, call.sort_by)) =>
          farm_records' = Reverse(farm_records)]_vars

\* a descending sort by value right after the ascending one, on three records
\* with distinct keys
C5_Witness ==
    /\ call.op = "sort_records"
    /\ call.sort_by = "value"
    /\ ~call.ascending
    /\ call.after_asc
    /\ Len(farm_records) = 3
    /\ DistinctKeys(farm_records, "value")

\* C6: sort_records is stable in both directions: records whose primary key
\* and ref_date are both equal keep, after the sort, the relative order they
\* had immediately before it.
C6_SortStable ==
    [][(call'.op = "sort_records" /\ call'.ok) =>
          \A o \in Refs :
              SelectSeq(farm_records',
                        LAMBDA x : SortKey(heap[x], call'.sort_by) =
                                   SortKey(heap[o], call'.sort_by))
              = SelectSeq(farm_records,
                          LAMBDA x : SortKey(heap[x], call'.sort_by) =
                                     SortKey(heap[o], call'.sort_by))]_vars

\* a descending sort by value that moved a record past two records with equal
\* keys (" " and "a" both count as 0, same ref_date), which kept their order
C6_Witness ==
    /\ call.op = "sort_records"
    /\ call.sort_by = "value"
    /\ ~call.ascending
    /\ farm_records = <<1, 4, 3>>

\* C7: after a successful sort_records(field, ascending) every adjacent pair
\* of records is ordered by (primary key, ref_date), non-decreasing when
\* ascending and non-increasing when descending; the primary key is the number
\* for 'value' and 'coordinate' (empty, whitespace-only or unparseable text
\* counting as 0) and the lower-cased text for every other sortable field.
C7_SortOrdered ==
    (call.op = "sort_records" /\ call.ok) =>
        \A i \in 1..(Len(farm_records) - 1) :
            IF call.ascending
            THEN PairLeq(Live[i], Live[i + 1], call.sort_by)
            ELSE PairLeq(Live[i + 1], Live[i], call.sort_by)

\* an ascending sort by value of " ", "2" and "10": 0 < 2 < 10
C7_Witness ==
    /\ call.op = "sort_records"
    /\ call.ok
    /\ call.sort_by = "value"
    /\ call.ascending
    /\ farm_records = <<3, 2, 1>>

\* C8: get_top_n_records never changes the live collection: for every n,
\* field and direction the records and their order are the same after the call.
C8_TopNLeavesLive ==
    [][call'.op = "get_top_n_records" =>
          /\ farm_records' = farm_records
          /\ heap' = heap]_vars

\* a top-n whose result is in another order than the live list
C8_Witness ==
    /\ call.op = "get_top_n_records"
    /\ Len(call.out) >= 2
    /\ call.out # SubSeq(farm_records, 1, Len(call.out))

\* record a is strictly before record b in the order by field f: by number
\* for 'value', by the text of the field otherwise
FieldLess(a, b, f) ==
    IF f = "value"
    THEN NumericValueOf(a[f]) < NumericValueOf(b[f])
    ELSE StrLess(a[f], b[f])

\* C9: for n >= 0 and a field of the records, get_top_n_records(n, field,
\* ascending) returns exactly min(n, record_count) records, and they are the
\* first records of the collection ordered by the field in the requested
\* direction: in that order themselves, taken from the collection, and no
\* record left out comes before one returned.
C9_TopNFirstRecords ==
    (call.op = "get_top_n_records" /\ call.n >= 0 /\ call.sort_by \in Fields) =>
        /\ ~call.raised
        /\ Len(call.out) = IF call.n < record_count(farm_records) THEN call.n
                           ELSE record_count(farm_records)
        /\ \A o \in Refs : Count(call.out, o) <= Count(farm_records, o)
        /\ \A i \in 1..(Len(call.out) - 1) :
              IF call.ascending
              THEN ~FieldLess(heap[call.out[i + 1]], heap[call.out[i]], call.sort_by)
              ELSE ~FieldLess(heap[call.out[i]], heap[call.out[i + 1]], call.sort_by)
        /\ \A i \in 1..Len(call.out) :
              \A y \in {o \in Refs : Count(call.out, o) < Count(farm_records, o)} :
                  IF call.ascending
                  THEN ~FieldLess(heap[y], heap[call.out[i]], call.sort_by)
                  ELSE ~FieldLess(heap[call.out[i]], heap[y], call.sort_by)

\* top 1 by value descending on values "2", "10", " " returns only the "10"
\* record
C9_Witness ==
    /\ call.op = "get_top_n_records"
    /\ call.n = 1
    /\ call.sort_by = "value"
    /\ ~call.ascending
    /\ farm_records = <<2, 1, 3>>
    /\ call.out = <<1>>

(***************************************************************************)
(* Claims about what the Service hands out                                 *)
(***************************************************************************)
\* C10: no mutation a caller performs on what a read handed out (the list
\* from get_all_records, a record from get_record_by_index or
\* get_top_n_records, through the record's setters) changes the Service's
\* live collection.
C10_CopyOnRead ==
    [][call'.op \in {"setter", "list_pop"} => Live' = Live]_vars

(***************************************************************************)
(* SearchEngine                                                            *)
(*   A DataFrame is a sequence of rows.  A row keeps its index label (the  *)
(*   position it had in the snapshot) and its cells by column name.  A row *)
(*   whose src is a record reference stands for a row that shares the      *)
(*   record object instead of holding copies of its texts.                 *)
(*   Condition values are str, as the callers pass them.                   *)
(***************************************************************************)
\* SearchEngine.COLUMN_MAPPING: the CSV column of each record field
COLUMN_MAPPING ==
    [f \in Fields |->
        CASE f = "ref_date" -> "REF_DATE"
          [] f = "geo" -> "GEO"
          [] f = "dguid" -> "DGUID"
          [] f = "area_production_farm_value" ->
                "Area, production and farm value of potatoes"
          [] f = "uom" -> "UOM"
          [] f = "uom_id" -> "UOM_ID"
          [] f = "scalar_factor" -> "SCALAR_FACTOR"
          [] f = "scalar_id" -> "SCALAR_ID"
          [] f = "vector" -> "VECTOR"
          [] f = "coordinate" -> "COORDINATE"
          [] f = "value" -> "VALUE"
          [] f = "status" -> "STATUS"
          [] f = "symbol" -> "SYMBOL"
          [] f = "terminated" -> "TERMINATED"
          [] f = "decimals" -> "DECIMALS"]

\* df.columns of a DataFrame built from at least one record
Columns == {COLUMN_MAPPING[f] : f \in Fields}

\* the record field a column is filled from
FieldOf(c) == CHOOSE f \in Fields : COLUMN_MAPPING[f] = c

\* the row dictionary from_records builds from one record
RowCells(rec) == [c \in Columns |-> rec[FieldOf(c)]]

\* from_records with rows that keep the record objects instead of their texts
from_records_by_reference(records, hp) ==
    [i \in 1..Len(records) |->
        [index |-> i - 1, src |-> records[i], cells |-> RowCells(hp[records[i]])]]

\* SearchEngine.from_records followed by __init__: the DataFrame the engine
\* keeps, one row per record with the texts the record holds at that moment
from_records(records, hp) ==
    [i \in 1..Len(records) |->
        [index |-> i - 1, src |-> NoneRef, cells |-> RowCells(hp[records[i]])]]

\* the cells of a row as a query reads them
Cells(row, hp) == IF row.src = NoneRef THEN row.cells ELSE RowCells(hp[row.src])

\* needle in hay, on str
Contains(hay, needle) ==
    \E k \in 0..(Len(hay) - Len(needle)) :
        SubSeq(hay, k + 1, k + Len(needle)) = needle

\* hay.startswith(prefix) and hay.endswith(suffix)
StartsWith(hay, prefix) ==
    Len(prefix) <= Len(hay) /\ SubSeq(hay, 1, Len(prefix)) = prefix

EndsWith(hay, suffix) ==
    /\ Len(suffix) <= Len(hay)
    /\ SubSeq(hay, Len(hay) - Len(suffix) + 1, Len(hay)) = suffix

\* a conversion that turns a text that is no number into 0, as the sort keys do
ToNumericOrZero(text) ==
    [ok |-> TRUE, val |-> IF PyFloat(text).ok THEN PyFloat(text).val ELSE 0]

\* pd.to_numeric(text, errors='coerce'): [ok |-> FALSE] stands for NaN.  It
\* skips surrounding blanks and reads a sign and digits, as float() does on
\* the modelled texts.
ToNumeric(text) == PyFloat(text)

\* a op b on numbers or on str, for the four ordering operators
Compare(op, less, equal) ==
    CASE op = "GREATER_THAN" -> ~less /\ ~equal
      [] op = "LESS_THAN" -> less
      [] op = "GREATER_EQUAL" -> ~less
      [] op = "LESS_EQUAL" -> less \/ equal

\* what _apply_condition computes for one cell of the condition's column
CellMatches(cell, condition) ==
    LET value == condition.value
        op == condition.operator
    IN  CASE op = "CONTAINS" ->
               IF ~condition.case_sensitive
               THEN Contains(Lower(cell), Lower(value))
               ELSE Contains(cell, value)
          [] op = "REGEX" ->
               \* a pattern over the modelled characters matches literally
               IF ~condition.case_sensitive
               THEN Contains(Lower(cell), Lower(value))
               ELSE Contains(cell, value)
          [] op = "STARTSWITH" ->
               IF ~condition.case_sensitive
               THEN StartsWith(Lower(cell), Lower(value))
               ELSE StartsWith(cell, value)
          [] op = "ENDSWITH" ->
               IF ~condition.case_sensitive
               THEN EndsWith(Lower(cell), Lower(value))
               ELSE EndsWith(cell, value)
          [] op = "EQUALS" -> cell = value
          [] op = "NOT_EQUALS" -> cell # value
          [] op \in {"GREATER_THAN", "LESS_THAN", "GREATER_EQUAL", "LESS_EQUAL"} ->
               IF PyFloat(value).ok
               THEN /\ ToNumeric(cell).ok
                    /\ Compare(op, ToNumeric(cell).val < PyFloat(value).val,
                                   ToNumeric(cell).val = PyFloat(value).val)
               ELSE Compare(op, StrLess(cell, value), cell = value)
          [] OTHER -> FALSE

\* _apply_condition that reads a missing column as a column of empty texts
apply_condition_missing_as_empty(rows, condition, hp) ==
    [i \in 1..Len(rows) |->
        CellMatches(IF condition.column \in Columns
                    THEN Cells(rows[i], hp)[condition.column] ELSE <<>>,
                    condition)]

\* SearchEngine._apply_condition: the boolean mask of a condition over rows
apply_condition(rows, condition, hp) ==
    [i \in 1..Len(rows) |->
        IF condition.column \notin Columns THEN FALSE
        ELSE CellMatches(Cells(rows[i], hp)[condition.column], condition)]

\* the table search starts from, always the full snapshot
SearchBaseSnapshot(dfv, last, refine_previous) == dfv

\* the table search starts from: the previous results when refining and there
\* are some, the full snapshot otherwise
SearchBase(dfv, last, refine_previous) ==
    IF refine_previous /\ ~last.none THEN last.rows ELSE dfv

\* mask & condition_mask, or mask | condition_mask
CombineMask(mask, condition_mask, boolean_op) ==
    [i \in 1..Len(mask) |->
        IF boolean_op = "AND" THEN mask[i] /\ condition_mask[i]
        ELSE mask[i] \/ condition_mask[i]]

\* the combined mask, with AND between the conditions whatever was asked
RECURSIVE SearchMaskAlwaysAnd(_, _, _, _, _)
SearchMaskAlwaysAnd(rows, conditions, boolean_op, hp, k) ==
    IF k = 1 THEN apply_condition(rows, conditions[1], hp)
    ELSE CombineMask(SearchMaskAlwaysAnd(rows, conditions, boolean_op, hp, k - 1),
                     apply_condition(rows, conditions[k], hp), "AND")

\* the combined mask, folded from an all-false mask instead of from the
\* first condition's mask
RECURSIVE SearchMaskFromFalse(_, _, _, _, _)
SearchMaskFromFalse(rows, conditions, boolean_op, hp, k) ==
    IF k = 0 THEN [i \in 1..Len(rows) |-> FALSE]
    ELSE CombineMask(SearchMaskFromFalse(rows, conditions, boolean_op, hp, k - 1),
                     apply_condition(rows, conditions[k], hp), boolean_op)

\* the mask after the first k conditions: the first condition's mask, then
\* each further condition's mask combined into it from left to right
RECURSIVE SearchMask(_, _, _, _, _)
SearchMask(rows, conditions, boolean_op, hp, k) ==
    IF k = 1 THEN apply_condition(rows, conditions[1], hp)
    ELSE CombineMask(SearchMask(rows, conditions, boolean_op, hp, k - 1),
                     apply_condition(rows, conditions[k], hp), boolean_op)

\* df[mask] that hands the selected rows back last row first
FilterRowsLastFirst(rows, mask) ==
    LET keep == {i \in 1..Len(rows) : mask[i]}
    IN  [j \in 1..Cardinality(keep) |->
            rows[CHOOSE i \in keep : Cardinality({k \in keep : k >= i}) = j]]

\* df[mask]: the rows whose mask entry is true, in the order of df
FilterRows(rows, mask) ==
    LET keep == {i \in 1..Len(rows) : mask[i]}
    IN  [j \in 1..Cardinality(keep) |->
            rows[CHOOSE i \in keep : Cardinality({k \in keep : k <= i}) = j]]

\* search that records every call in the history, an empty list included
search_recording_every_call(dfv, last, history, conditions, boolean_op, refine_previous, hp) ==
    LET base == SearchBase(dfv, last, refine_previous)
        results == IF conditions = <<>> THEN base
                   ELSE FilterRows(base, SearchMask(base, conditions, boolean_op,
                                                    hp, Len(conditions)))
    IN  [last_results |-> Table(results),
         search_history |-> Append(history, <<conditions, boolean_op>>),
         out |-> Table(results), alias |-> TRUE]

\* search without the early return for an empty condition list: nothing
\* selects a row, so the result is empty
search_without_early_return(dfv, last, history, conditions, boolean_op, refine_previous, hp) ==
    LET base == SearchBase(dfv, last, refine_previous)
        results == IF conditions = <<>> THEN <<>>
                   ELSE FilterRows(base, SearchMask(base, conditions, boolean_op,
                                                    hp, Len(conditions)))
    IN  [last_results |-> Table(results),
         search_history |-> IF conditions = <<>> THEN history
                            ELSE Append(history, <<conditions, boolean_op>>),
         out |-> Table(results), alias |-> TRUE]

\* SearchEngine.search: the new _last_results and _search_history, the
\* DataFrame returned, and whether the DataFrame returned is the very object
\* kept in _last_results (alias)
search(dfv, last, history, conditions, boolean_op, refine_previous, hp) ==
    LET base == SearchBase(dfv, last, refine_previous)
        results == FilterRows(base, SearchMask(base, conditions, boolean_op, hp,
                                               Len(conditions)))
    IN  IF conditions = <<>>
        THEN [last_results |-> Table(base), search_history |-> history,
              out |-> Table(base), alias |-> TRUE]
        ELSE [last_results |-> Table(results),
              search_history |-> Append(history, <<conditions, boolean_op>>),
              out |-> Table(results), alias |-> TRUE]

\* SearchEngine.get_last_results
get_last_results(last) == last

\* clear_results that leaves an empty table where None belongs
clear_results_to_empty_table ==
    [last_results |-> Table(<<>>), search_history |-> <<>>]

\* SearchEngine.clear_results: the new _last_results and _search_history
clear_results == [last_results |-> NoneTable, search_history |-> <<>>]

(***************************************************************************)
(* A search session next to a Service that keeps changing                  *)
(***************************************************************************)
\* a SearchCondition; case_sensitive defaults to False
SearchCondition(column, operator, value, case_sensitive) ==
    [column |-> column, operator |-> operator, value |-> value,
     case_sensitive |-> case_sensitive]

\* SearchUI.initialize_search_engine: a new engine over what the Service holds
FromRecords ==
    /\ df' = from_records(get_all_records(farm_records).out, heap)
    /\ last_results' = NoneTable
    /\ search_history' = <<>>
    /\ call' = [NoCall EXCEPT !.op = "from_records"]
    /\ result' = NoResult
    /\ UNCHANGED <<heap, farm_records, store_vars>>

\* engine.search(conditions, boolean_op, refine_previous)
Search(conditions, boolean_op, refine_previous) ==
    LET r == search(df, last_results, search_history, conditions, boolean_op,
                    refine_previous, heap)
    IN  /\ Len(search_history) < MaxHistory \/ conditions = <<>>
        /\ last_results' = r.last_results
        /\ search_history' = r.search_history
        /\ call' = [NoCall EXCEPT !.op = "search"]
        /\ result' = [NoResult EXCEPT !.conditions = conditions,
                                      !.boolean_op = boolean_op,
                                      !.refine_previous = refine_previous,
                                      !.table = r.out, !.alias = r.alias]
        /\ UNCHANGED <<heap, farm_records, df, store_vars>>

\* engine.clear_results()
ClearResults ==
    /\ last_results' = clear_results.last_results
    /\ search_history' = clear_results.search_history
    /\ call' = [NoCall EXCEPT !.op = "clear_results"]
    /\ result' = [NoResult EXCEPT !.cleared = Len(search_history)]
    /\ UNCHANGED <<heap, farm_records, df, store_vars>>

\* the conditions the search session next to the Service tries
ValueIsNine == SearchCondition("VALUE", "EQUALS", <<"9">>, FALSE)
GeoHasB == SearchCondition("GEO", "CONTAINS", <<"b">>, FALSE)

(***************************************************************************)
(* Claims about the SearchEngine's snapshot                                *)
(***************************************************************************)
\* the cells a caller reads from the rows of a table, row by row
Shown(rows, hp) == [i \in 1..Len(rows) |-> Cells(rows[i], hp)]

\* the calls that change the Service's list or a record object in place
ServiceMutators ==
    {"add_record", "update_record", "delete_record", "sort_records", "setter",
     "load_data_from_file"}

\* the searches a caller may make later
LaterConditions ==
    {<<ValueIsNine>>,
     <<SearchCondition("VALUE", "GREATER_THAN", <<"2">>, FALSE), ValueIsNine>>}

\* C11: a SearchEngine built with from_records is independent of the Service
\* afterwards: an add, update, delete, sort, load or in-place field change on
\* the Service's records leaves the engine's snapshot, its last results and
\* what every later search returns exactly as they were.
C11_SnapshotIndependent ==
    [][call'.op \in ServiceMutators =>
          /\ Shown(df', heap') = Shown(df, heap)
          /\ last_results'.none = last_results.none
          /\ Shown(last_results'.rows, heap') = Shown(last_results.rows, heap)
          /\ \A conditions \in LaterConditions, refine_previous \in BOOLEAN :
                Shown(search(df', last_results', search_history', conditions,
                             "OR", refine_previous, heap').out.rows, heap')
                = Shown(search(df, last_results, search_history, conditions,
                               "OR", refine_previous, heap).out.rows, heap)
      ]_vars

\* a record whose row is in the snapshot and in the last results has been
\* changed in place, after the engine was built
C11_Witness ==
    /\ call.op = "setter"
    /\ heap[call.record] # Pool[call.record]
    /\ \E i \in 1..Len(farm_records) : farm_records[i] = call.record
    /\ \E i \in 1..Len(df) : df[i].cells = RowCells(Pool[call.record])
    /\ ~last_results.none
    /\ last_results.rows # <<>>

(***************************************************************************)
(* CSV files                                                               *)
(*   The text of a file is a sequence of characters.  csv.DictWriter       *)
(*   writes it and csv.DictReader reads it back, character by character,   *)
(*   with the excel dialect both use by default.                           *)
(***************************************************************************)
\* the column names as text, as they stand in a header row
NameChars(c) ==
    CASE c = "REF_DATE" ->
          <<"R", "E", "F", "_", "D", "A", "T", "E">>
      [] c = "GEO" ->
          <<"G", "E", "O">>
      [] c = "DGUID" ->
          <<"D", "G", "U", "I", "D">>
      [] c = "Area, production and farm value of potatoes" ->
          <<"A", "r", "e", "a", ",", " ", "p", "r", "o", "d",
            "u", "c", "t", "i", "o", "n", " ", "a", "n", "d",
            " ", "f", "a", "r", "m", " ", "v", "a", "l", "u",
            "e", " ", "o", "f", " ", "p", "o", "t", "a", "t",
            "o", "e", "s">>
      [] c = "UOM" ->
          <<"U", "O", "M">>
      [] c = "UOM_ID" ->
          <<"U", "O", "M", "_", "I", "D">>
      [] c = "SCALAR_FACTOR" ->
          <<"S", "C", "A", "L", "A", "R", "_", "F", "A", "C",
            "T", "O", "R">>
      [] c = "SCALAR_ID" ->
          <<"S", "C", "A", "L", "A", "R", "_", "I", "D">>
      [] c = "VECTOR" ->
          <<"V", "E", "C", "T", "O", "R">>
      [] c = "COORDINATE" ->
          <<"C", "O", "O", "R", "D", "I", "N", "A", "T", "E">>
      [] c = "VALUE" ->
          <<"V", "A", "L", "U", "E">>
      [] c = "STATUS" ->
          <<"S", "T", "A", "T", "U", "S">>
      [] c = "SYMBOL" ->
          <<"S", "Y", "M", "B", "O", "L">>
      [] c = "TERMINATED" ->
          <<"T", "E", "R", "M", "I", "N", "A", "T", "E", "D">>
      [] c = "DECIMALS" ->
          <<"D", "E", "C", "I", "M", "A", "L", "S">>

\* fieldnames of save_records_to_csv: the fifteen columns in file order
fieldnames ==
    <<"REF_DATE", "GEO", "DGUID", "Area, production and farm value of potatoes",
      "UOM", "UOM_ID", "SCALAR_FACTOR", "SCALAR_ID", "VECTOR", "COORDINATE",
      "VALUE", "STATUS", "SYMBOL", "TERMINATED", "DECIMALS">>

\* the characters a..b of a field, every quote character written twice.
\* (This and the other operators over a range a..b split the range in two
\* halves, so that long texts do not need deep recursion.)
RECURSIVE DoubleQuotesIn(_, _, _)
DoubleQuotesIn(text, a, b) ==
    IF a > b THEN <<>>
    ELSE IF a = b
    THEN IF text[a] = "\"" THEN <<"\"", "\"">> ELSE <<text[a]>>
    ELSE DoubleQuotesIn(text, a, (a + b) \div 2)
         \o DoubleQuotesIn(text, (a + b) \div 2 + 1, b)

DoubleQuotes(text) == DoubleQuotesIn(text, 1, Len(text))

\* one field as csv.writer writes it (QUOTE_MINIMAL, doublequote): in quotes
\* when it holds a delimiter, a quote character or a line break
QuoteField(text) ==
    IF \E i \in 1..Len(text) : text[i] \in {",", "\"", "\r", "\n"}
    THEN <<"\"">> \o DoubleQuotes(text) \o <<"\"">>
    ELSE text

\* the first k fields of a row, each as written, with commas between them
RECURSIVE JoinFields(_, _)
JoinFields(fields, k) ==
    IF k = 0 THEN <<>>
    ELSE IF k = 1 THEN QuoteField(fields[1])
    ELSE JoinFields(fields, k - 1) \o <<",">> \o QuoteField(fields[k])

\* csv.writer.writerow: the fields and the line terminator
WriteRow(fields) == JoinFields(fields, Len(fields)) \o <<"\r", "\n">>

\* DictWriter.writeheader
WriteHeader == WriteRow([j \in 1..Len(fieldnames) |-> NameChars(fieldnames[j])])

\* None, where the text of a field is expected
NoneText == <<"None">>

\* DictWriter.writerow(rowdict): the values in the order of fieldnames, None
\* written as the empty text
WriteDictRow(rowdict) ==
    WriteRow([j \in 1..Len(fieldnames) |->
                 IF rowdict[fieldnames[j]] = NoneText THEN <<>>
                 ELSE rowdict[fieldnames[j]]])

\* the lines a file opened in text mode yields from the characters a..b:
\* each of "\n", "\r" and "\r\n" ends a line and is handed over as "\n".
\* The last line of a half that has no line break yet continues in the
\* first line of the next half.
RECURSIVE ReadLinesIn(_, _, _)
ReadLinesIn(text, a, b) ==
    IF a > b THEN <<>>
    ELSE IF a = b
    THEN IF text[a] = "\r" /\ a < Len(text) /\ text[a + 1] = "\n" THEN <<>>
         ELSE IF text[a] \in {"\n", "\r"} THEN << <<"\n">> >>
         ELSE << <<text[a]>> >>
    ELSE LET left == ReadLinesIn(text, a, (a + b) \div 2)
             right == ReadLinesIn(text, (a + b) \div 2 + 1, b)
             open == /\ left # <<>>
                     /\ left[Len(left)][Len(left[Len(left)])] # "\n"
         IN  IF open /\ right # <<>>
             THEN SubSeq(left, 1, Len(left) - 1)
                  \o <<left[Len(left)] \o right[1]>>
                  \o Tail(right)
             ELSE left \o right

ReadLines(text) == ReadLinesIn(text, 1, Len(text))

\* the end-of-line mark the reader feeds itself after each line
EOL == "EOL"

\* csv.reader at the start of a record, with the rows read so far
ParseReset(rows) ==
    [state |-> "START_RECORD", field |-> <<>>, fields |-> <<>>, rows |-> rows,
     error |-> FALSE]

\* parse_save_field and parse_add_char
SaveField(st) == [st EXCEPT !.fields = Append(st.fields, st.field), !.field = <<>>]

AddChar(st, c) == [st EXCEPT !.field = Append(st.field, c)]

\* the state after a line break or the end-of-line mark ended a field
AfterBreak(c) == IF c = EOL THEN "START_RECORD" ELSE "EAT_CRNL"

\* parse_process_char: one step of the reader's state machine
ProcessChar(st, c) ==
    LET break == c \in {"\n", "\r", EOL}
        state == IF st.state = "START_RECORD" /\ c \notin {"\n", "\r", EOL}
                 THEN "START_FIELD" ELSE st.state
    IN  CASE st.error -> st
          [] state = "START_RECORD" ->
               IF c = EOL THEN st ELSE [st EXCEPT !.state = "EAT_CRNL"]
          [] state = "START_FIELD" ->
               IF break THEN [SaveField(st) EXCEPT !.state = AfterBreak(c)]
               ELSE IF c = "\"" THEN [st EXCEPT !.state = "IN_QUOTED_FIELD"]
               ELSE IF c = "," THEN [SaveField(st) EXCEPT !.state = "START_FIELD"]
               ELSE [AddChar(st, c) EXCEPT !.state = "IN_FIELD"]
          [] state = "IN_FIELD" ->
               IF break THEN [SaveField(st) EXCEPT !.state = AfterBreak(c)]
               ELSE IF c = "," THEN [SaveField(st) EXCEPT !.state = "START_FIELD"]
               ELSE AddChar(st, c)
          [] state = "IN_QUOTED_FIELD" ->
               IF c = EOL THEN st
               ELSE IF c = "\"" THEN [st EXCEPT !.state = "QUOTE_IN_QUOTED_FIELD"]
               ELSE AddChar(st, c)
          [] state = "QUOTE_IN_QUOTED_FIELD" ->
               IF c = "\"" THEN [AddChar(st, c) EXCEPT !.state = "IN_QUOTED_FIELD"]
               ELSE IF c = "," THEN [SaveField(st) EXCEPT !.state = "START_FIELD"]
               ELSE IF break THEN [SaveField(st) EXCEPT !.state = AfterBreak(c)]
               ELSE [AddChar(st, c) EXCEPT !.state = "IN_FIELD"]
          [] state = "EAT_CRNL" ->
               IF c \in {"\n", "\r"} THEN st
               ELSE IF c = EOL THEN [st EXCEPT !.state = "START_RECORD"]
               ELSE [st EXCEPT !.error = TRUE]

\* the reader after the characters a..b of a line
RECURSIVE ProcessChars(_, _, _, _)
ProcessChars(st, line, a, b) ==
    IF st.error \/ a > b THEN st
    ELSE IF a = b THEN ProcessChar(st, line[a])
    ELSE ProcessChars(ProcessChars(st, line, a, (a + b) \div 2),
                      line, (a + b) \div 2 + 1, b)

\* the reader after one more line: the row is complete, and the reader is
\* reset, when the line ends outside a quoted field
ProcessLine(st, line) ==
    LET after == ProcessChar(ProcessChars(st, line, 1, Len(line)), EOL)
    IN  IF after.state = "START_RECORD" /\ ~after.error
        THEN ParseReset(Append(after.rows, after.fields))
        ELSE after

\* the reader after the lines a..b
RECURSIVE ProcessLines(_, _, _, _)
ProcessLines(st, lines, a, b) ==
    IF st.error \/ a > b THEN st
    ELSE IF a = b THEN ProcessLine(st, lines[a])
    ELSE ProcessLines(ProcessLines(st, lines, a, (a + b) \div 2),
                      lines, (a + b) \div 2 + 1, b)

\* the reader at the end of the file: what it has of a row is one more row
EndOfFile(st) ==
    IF ~st.error /\ (st.field # <<>> \/ st.state = "IN_QUOTED_FIELD")
    THEN ParseReset(Append(st.rows, Append(st.fields, st.field)))
    ELSE st

\* csv.reader(file): [error, rows]
CsvReader(text) ==
    LET lines == ReadLines(text)
    IN  EndOfFile(ProcessLines(ParseReset(<<>>), lines, 1, Len(lines)))

(***************************************************************************)
(* FarmDataRepository                                                      *)
(*   A file is [exists, readable, writable, decodable, text]: whether the  *)
(*   path exists, whether it may be opened for reading and for writing,    *)
(*   whether its bytes are UTF-8, and its characters.  The byte order mark *)
(*   that the utf-8-sig codec writes first is the character BOM.           *)
(***************************************************************************)
\* max_records when the caller gives none
DefaultMaxRecords == 100

\* the byte order mark
BOM == "BOM"

\* what the utf-8-sig codec hands to the reader: the text without a leading
\* byte order mark
DecodeSig(text) == IF text # <<>> /\ Head(text) = BOM THEN Tail(text) ELSE text

\* FarmDataRecord.to_csv_row: the record's fifteen texts by column name
to_csv_row(rec) == [c \in Columns |-> rec[FieldOf(c)]]

\* row.get(key, default) on the dictionary DictReader builds from a row: the
\* cell under the last header field equal to key, None when the row is too
\* short to have that cell, default when no header field equals key
RowGet(header, row, key, default) ==
    LET at == {j \in 1..Len(header) : header[j] = key}
        last == CHOOSE j \in at : \A i \in at : i <= j
    IN  IF at = {} THEN default
        ELSE IF last <= Len(row) THEN row[last]
        ELSE NoneText

\* the FarmDataRecord load_records_from_csv builds from one row
RecordOfRow(header, row) ==
    [f \in Fields |-> RowGet(header, row, NameChars(COLUMN_MAPPING[f]), <<>>)]

\* the rows DictReader yields after the header row: the empty ones skipped
DataRows(rows) == SelectSeq(Tail(rows), LAMBDA r : r # <<>>)

\* how many rows the loop of load_records_from_csv turns into records
LoadCount(available, max_records) ==
    IF max_records <= 0 THEN 0
    ELSE IF available < max_records THEN available
    ELSE max_records

\* load_records_from_csv without the limit of max_records
load_records_from_csv_uncapped(file, max_records) ==
    IF ~file.exists \/ ~file.readable \/ ~file.decodable
    THEN [raised |-> TRUE, records |-> <<>>]
    ELSE LET parsed == CsvReader(DecodeSig(file.text))
         IN  IF parsed.error THEN [raised |-> TRUE, records |-> <<>>]
             ELSE IF parsed.rows = <<>> THEN [raised |-> FALSE, records |-> <<>>]
             ELSE [raised |-> FALSE,
                   records |-> [i \in 1..Len(DataRows(parsed.rows)) |->
                                   RecordOfRow(parsed.rows[1],
                                               DataRows(parsed.rows)[i])]]

\* FarmDataRepository.load_records_from_csv: it raises when the file is
\* missing, may not be read, is not UTF-8 or is rejected by the csv reader;
\* otherwise it returns one record per data row, max_records at most
load_records_from_csv(file, max_records) ==
    IF ~file.exists \/ ~file.readable \/ ~file.decodable
    THEN [raised |-> TRUE, records |-> <<>>]
    ELSE LET parsed == CsvReader(DecodeSig(file.text))
             data == DataRows(parsed.rows)
         IN  IF parsed.error THEN [raised |-> TRUE, records |-> <<>>]
             ELSE IF parsed.rows = <<>> THEN [raised |-> FALSE, records |-> <<>>]
             ELSE [raised |-> FALSE,
                   records |-> [i \in 1..LoadCount(Len(data), max_records) |->
                                   RecordOfRow(parsed.rows[1], data[i])]]

\* the rows writer.writerow writes for the records a..b of the list
RECURSIVE WriteRecords(_, _, _, _)
WriteRecords(records, hp, a, b) ==
    IF a > b THEN <<>>
    ELSE IF a = b THEN WriteDictRow(to_csv_row(hp[records[a]]))
    ELSE WriteRecords(records, hp, a, (a + b) \div 2)
         \o WriteRecords(records, hp, (a + b) \div 2 + 1, b)

\* the file open(csv_filename, 'w') leaves once the header and the records
\* are written
WrittenFile(file, records, hp) ==
    [file EXCEPT !.exists = TRUE, !.decodable = TRUE,
                 !.text = <<BOM>> \o WriteHeader
                          \o WriteRecords(records, hp, 1, Len(records))]

\* save_records_to_csv that opens the file before it looks at the list
save_records_to_csv_open_first(records, hp, file) ==
    IF ~file.writable THEN [ret |-> FALSE, raised |-> TRUE, file |-> file]
    ELSE IF records = <<>>
    THEN [ret |-> FALSE, raised |-> FALSE,
          file |-> [file EXCEPT !.exists = TRUE, !.decodable = TRUE, !.text = <<>>]]
    ELSE [ret |-> TRUE, raised |-> FALSE, file |-> WrittenFile(file, records, hp)]

\* FarmDataRepository.save_records_to_csv: what it returns, whether it
\* raises, and the file it leaves
save_records_to_csv(records, hp, file) ==
    IF records = <<>> THEN [ret |-> FALSE, raised |-> FALSE, file |-> file]
    ELSE IF ~file.writable THEN [ret |-> FALSE, raised |-> TRUE, file |-> file]
    ELSE [ret |-> TRUE, raised |-> FALSE, file |-> WrittenFile(file, records, hp)]

(***************************************************************************)
(* The Repository and its callers                                          *)
(***************************************************************************)
\* The record objects the Repository's callers hold: texts with a comma, a
\* quote character, a line feed and a carriage return in them, and a record
\* with every field empty.
RepoPool ==
    << FarmDataRecord([ref_date |-> <<"2">>, geo |-> <<"a", ",", "\"">>,
                       area_production_farm_value |-> <<"b", "\n", "b">>,
                       value |-> <<"1", "0">>]),
       FarmDataRecord(<<>>),
       FarmDataRecord([geo |-> <<"a">>, value |-> <<"a", "\r", "b">>]) >>

RepoRefs == 1..Len(RepoPool)

\* a list longer than the default max_records
LongList == [i \in 1..(DefaultMaxRecords + 1) |-> 1 + (i % 2)]

\* the lists the callers save
SavedLists == UNION {[1..k -> RepoRefs] : k \in 0..MaxSaved}

\* files another program left behind: no byte order mark, line feeds only, a
\* column missing and one added, a blank line, a row that is too short
ForeignTexts ==
    { <<"G", "E", "O", ",", "X", ",", "V", "A", "L", "U", "E", "\n",
        "a", ",", "x", ",", "1", "\n",
        "\n",
        "b", "\n",
        "a", ",", ",", "2", "\n">>,
      <<>> }

InitRepo ==
    /\ heap = [o \in RepoRefs |-> RepoPool[o]]
    /\ farm_records = <<>>
    /\ call = NoCall
    /\ InitOthers

\* repository.save_records_to_csv(records, path)
SaveRecordsToCsv(records, path) ==
    LET r == save_records_to_csv(records, heap, files[path])
    IN  /\ files' = [files EXCEPT ![path] = r.file]
        /\ call' = [NoCall EXCEPT !.op = "save_records_to_csv", !.out = records]
        /\ result' = [NoResult EXCEPT !.path = path, !.ok = r.ret,
                                      !.raised = r.raised]
        /\ UNCHANGED <<heap, farm_records, engine_vars, source_filename>>

\* repository.load_records_from_csv(path, max_records); defaulted says that
\* the caller gave no max_records
LoadRecordsFromCsv(path, max_records, defaulted) ==
    LET r == load_records_from_csv(files[path], max_records)
    IN  /\ defaulted => max_records = DefaultMaxRecords
        /\ call' = [NoCall EXCEPT !.op = "load_records_from_csv"]
        /\ result' = [NoResult EXCEPT !.path = path, !.max_records = max_records,
                                      !.defaulted = defaulted,
                                      !.raised = r.raised, !.records = r.records]
        /\ UNCHANGED <<heap, farm_records, engine_vars, store_vars>>

\* another program writes a file
ExternalWrite(path, text) ==
    /\ files' = [files EXCEPT ![path] = [@ EXCEPT !.exists = TRUE, !.text = text]]
    /\ call' = [NoCall EXCEPT !.op = "external_write"]
    /\ result' = NoResult
    /\ UNCHANGED <<heap, farm_records, engine_vars, source_filename>>

\* the permissions of a path change, or what is stored there gets damaged
Chmod(path, readable, writable, decodable) ==
    /\ files' = [files EXCEPT ![path] = [@ EXCEPT !.readable = readable,
                                                  !.writable = writable,
                                                  !.decodable = decodable]]
    /\ call' = [NoCall EXCEPT !.op = "chmod"]
    /\ result' = NoResult
    /\ UNCHANGED <<heap, farm_records, engine_vars, source_filename>>

NextRepo ==
    \/ \E records \in SavedLists : SaveRecordsToCsv(records, "a.csv")
    \/ \E max_records \in {0 - 1, 0, 1, 2, MaxSaved + 1} :
          LoadRecordsFromCsv("a.csv", max_records, FALSE)
    \/ LoadRecordsFromCsv("a.csv", DefaultMaxRecords, TRUE)
    \/ \E text \in ForeignTexts : ExternalWrite("a.csv", text)
    \/ \E flags \in {<<TRUE, TRUE, TRUE>>, <<FALSE, TRUE, TRUE>>,
                     <<TRUE, FALSE, TRUE>>, <<TRUE, TRUE, FALSE>>} :
          Chmod("a.csv", flags[1], flags[2], flags[3])

RepoSpec == InitRepo /\ [][NextRepo]_vars

\* a.csv holds what save_records_to_csv wrote for the long list
InitLong ==
    /\ heap = [o \in RepoRefs |-> RepoPool[o]]
    /\ farm_records = <<>>
    /\ call = NoCall
    /\ df = <<>>
    /\ last_results = NoneTable
    /\ search_history = <<>>
    /\ files = [p \in Paths |->
                  IF p = "a.csv" THEN WrittenFile(NoFile, LongList, heap)
                  ELSE NoFile]
    /\ source_filename = NoneName
    /\ result = NoResult

\* loads of a file that may hold more rows than any max_records in use
NextLong ==
    \/ \E max_records \in {0, 1, DefaultMaxRecords, DefaultMaxRecords + 1,
                           DefaultMaxRecords + 2} :
          LoadRecordsFromCsv("a.csv", max_records, FALSE)
    \/ LoadRecordsFromCsv("a.csv", DefaultMaxRecords, TRUE)
    \/ \E records \in UNION {[1..k -> RepoRefs] : k \in 0..1} :
          SaveRecordsToCsv(records, "a.csv")
    \/ \E text \in ForeignTexts : ExternalWrite("a.csv", text)
    \/ \E flags \in {<<TRUE, TRUE, TRUE>>, <<FALSE, TRUE, TRUE>>,
                     <<TRUE, FALSE, TRUE>>, <<TRUE, TRUE, FALSE>>} :
          Chmod("a.csv", flags[1], flags[2], flags[3])

LongSpec == InitLong /\ [][NextLong]_vars

(***************************************************************************)
(* Claims about the Repository                                             *)
(***************************************************************************)
\* the records the list of references s holds, by value
ValuesOf(s, hp) == [i \in 1..Len(s) |-> hp[s[i]]]

\* this step is load_records_from_csv(path) of the file that the step before
\* wrote with save_records_to_csv(records, path), and the file may be read
LoadAfterSave ==
    /\ call.op = "save_records_to_csv"
    /\ result.ok
    /\ call'.op = "load_records_from_csv"
    /\ result'.path = result.path
    /\ result'.defaulted
    /\ files[result.path].readable

\* C12: round trip: for every non-empty list of records,
\* save_records_to_csv(records, path) followed by load_records_from_csv(path)
\* yields the same number of records in the same order, each with identical
\* values in all fifteen fields.
C12_RoundTrip ==
    [][LoadAfterSave =>
          /\ ~result'.raised
          /\ Len(result'.records) = Len(call.out)
          /\ \A i \in 1..Len(call.out) : \A f \in Fields :
                result'.records[i][f] = heap[call.out[i]][f]
      ]_vars

\* C13: saving an empty record list returns false and writes nothing: the
\* destination file is neither created nor modified (and nothing is raised,
\* even where the path may not be written).
C13_SaveEmpty ==
    [][call'.op = "save_records_to_csv" /\ call'.out = <<>> =>
          /\ ~result'.ok
          /\ ~result'.raised
          /\ files' = files
      ]_vars

\* an empty list was saved to a path that holds a file written before
C13_Witness ==
    /\ call.op = "save_records_to_csv"
    /\ call.out = <<>>
    /\ ~result.ok
    /\ files[result.path].exists
    /\ files[result.path].text # <<>>

\* the file may be read: it exists, may be opened, and is UTF-8
Readable(file) == file.exists /\ file.readable /\ file.decodable

\* the data rows of a file, each as the record it stands for, in file order
AllRows(file) ==
    LET rows == CsvReader(DecodeSig(file.text)).rows
    IN  IF rows = <<>> THEN <<>>
        ELSE [i \in 1..Len(DataRows(rows)) |-> RecordOfRow(rows[1], DataRows(rows)[i])]

\* the first min(Len(rows), n) elements of rows
FirstRows(rows, n) == SubSeq(rows, 1, IF Len(rows) < n THEN Len(rows) ELSE n)

\* C14 as stated: load_records_from_csv(path, max_records) on a readable file
\* with k data rows returns exactly the first min(k, max_records) rows, in
\* file order, one record per row; when no cap is supplied it reads every row
\* to the end of the file.
C14_LoadToEndOfFile ==
    [][call'.op = "load_records_from_csv" /\ Readable(files[result'.path]) =>
          /\ ~result'.raised
          /\ result'.records =
                IF result'.defaulted THEN AllRows(files[result'.path])
                ELSE FirstRows(AllRows(files[result'.path]), result'.max_records)
      ]_vars

\* C14, amended: load_records_from_csv(path, max_records) on a readable file
\* with k data rows returns exactly the first min(k, max_records) rows, in
\* file order, one record per row; when no cap is supplied max_records is
\* 100, so it returns the first min(k, 100) rows.
C14_LoadCapped ==
    [][call'.op = "load_records_from_csv" /\ Readable(files[result'.path]) =>
          /\ ~result'.raised
          /\ result'.defaulted => result'.max_records = DefaultMaxRecords
          /\ result'.records =
                FirstRows(AllRows(files[result'.path]), result'.max_records)
      ]_vars

\* a file with more than 100 data rows was loaded without a cap, and exactly
\* the first 100 came back
C14_Witness ==
    /\ call.op = "load_records_from_csv"
    /\ result.defaulted
    /\ Readable(files[result.path])
    /\ Len(AllRows(files[result.path])) > DefaultMaxRecords
    /\ Len(result.records) = DefaultMaxRecords

(***************************************************************************)
(* The Service's load and save                                             *)
(***************************************************************************)
\* load_data_from_file without the try/except around the Repository's call
load_data_from_file_uncaught(name, file, csv_filename, max_records) ==
    LET r == load_records_from_csv(file, max_records)
    IN  [ret |-> ~r.raised, raised |-> r.raised, replaced |-> ~r.raised,
         records |-> r.records,
         source_filename |-> IF r.raised THEN name ELSE csv_filename]

\* FarmDataService.load_data_from_file: what it returns, whether it raises,
\* whether it replaces the list, the records it puts there, and the new
\* _source_filename
load_data_from_file(name, file, csv_filename, max_records) ==
    LET r == load_records_from_csv(file, max_records)
    IN  IF r.raised
        THEN [ret |-> FALSE, raised |-> FALSE, replaced |-> FALSE,
              records |-> <<>>, source_filename |-> name]
        ELSE [ret |-> TRUE, raised |-> FALSE, replaced |-> TRUE,
              records |-> r.records, source_filename |-> csv_filename]

\* FarmDataService.save_data_to_file: what it returns, whether it raises,
\* and the file it leaves
save_data_to_file(fr, hp, file) ==
    LET r == save_records_to_csv(fr, hp, file)
    IN  [ret |-> IF r.raised THEN FALSE ELSE r.ret, raised |-> FALSE,
         file |-> r.file]

\* service.load_data_from_file(path) or (path, max_records).  The records
\* of a successful load are new objects: they take the references after the
\* callers' own records, where the objects of an earlier load, which nothing
\* refers to any longer, are dropped.
LoadDataFromFile(path, max_records, defaulted) ==
    LET r == load_data_from_file(source_filename, files[path], path, max_records)
    IN  /\ defaulted => max_records = DefaultMaxRecords
        /\ heap' = IF r.replaced THEN SubSeq(heap, 1, Len(Pool)) \o r.records
                   ELSE heap
        /\ farm_records' = IF r.replaced
                           THEN [i \in 1..Len(r.records) |-> Len(Pool) + i]
                           ELSE farm_records
        /\ source_filename' = r.source_filename
        /\ call' = [NoCall EXCEPT !.op = "load_data_from_file", !.ok = r.ret,
                                  !.raised = r.raised]
        /\ result' = [NoResult EXCEPT !.path = path, !.max_records = max_records,
                                      !.defaulted = defaulted, !.ok = r.ret,
                                      !.raised = r.raised]
        /\ UNCHANGED <<engine_vars, files>>

\* service.save_data_to_file(path)
SaveDataToFile(path) ==
    LET r == save_data_to_file(farm_records, heap, files[path])
    IN  /\ files' = [files EXCEPT ![path] = r.file]
        /\ call' = [NoCall EXCEPT !.op = "save_data_to_file", !.ok = r.ret,
                                  !.raised = r.raised]
        /\ result' = [NoResult EXCEPT !.path = path, !.ok = r.ret,
                                      !.raised = r.raised]
        /\ UNCHANGED <<heap, farm_records, engine_vars, source_filename>>

\* a file of one record, with the two columns a search looks at
SmallText ==
    <<"G", "E", "O", ",", "V", "A", "L", "U", "E", "\n", "b", ",", "1", "\n">>

\* a Service and an engine just constructed, next to a small file
InitEngine ==
    /\ heap = [o \in Refs |-> Pool[o]]
    /\ farm_records = <<>>
    /\ call = NoCall
    /\ df = <<>>
    /\ last_results = NoneTable
    /\ search_history = <<>>
    /\ files = [p \in Paths |->
                  IF p = "a.csv"
                  THEN [NoFile EXCEPT !.exists = TRUE, !.text = SmallText]
                  ELSE NoFile]
    /\ source_filename = NoneName
    /\ result = NoResult

\* the longest list the engine's callers build, and the searches they make
MaxEngineLen == 2
MaxEngineHistory == 1

NextEngine ==
    \/ Len(farm_records) < MaxEngineLen /\ AddRecord(1)
    \/ UpdateRecord(0, 2)
    \/ DeleteRecord(0)
    \/ SortRecords("value", TRUE)
    \/ LoadDataFromFile("a.csv", DefaultMaxRecords, TRUE)
    \/ GetRecordByIndex(0)
    \/ \E o \in Refs : SetterOnHanded(o, "value", <<"9">>)
    \/ FromRecords
    \/ Len(search_history) < MaxEngineHistory /\ Search(<<GeoHasB>>, "AND", FALSE)

EngineSpec == InitEngine /\ [][NextEngine]_vars

\* a Service just constructed, next to a file another program left behind
InitStore ==
    /\ heap = [o \in Refs |-> Pool[o]]
    /\ farm_records = <<>>
    /\ call = NoCall
    /\ df = <<>>
    /\ last_results = NoneTable
    /\ search_history = <<>>
    /\ files = [p \in Paths |->
                  IF p = "a.csv"
                  THEN [NoFile EXCEPT !.exists = TRUE,
                                      !.text = CHOOSE t \in ForeignTexts : t # <<>>]
                  ELSE NoFile]
    /\ source_filename = NoneName
    /\ result = NoResult

NextStore ==
    \/ farm_records = <<>> /\ AddRecord(1)
    \/ \E path \in Paths : LoadDataFromFile(path, DefaultMaxRecords, TRUE)
    \/ LoadDataFromFile("a.csv", 1, FALSE)
    \/ SaveDataToFile("b.csv")
    \/ \E flags \in {<<TRUE, TRUE, TRUE>>, <<FALSE, TRUE, TRUE>>,
                     <<TRUE, FALSE, TRUE>>, <<TRUE, TRUE, FALSE>>} :
          Chmod("b.csv", flags[1], flags[2], flags[3])

StoreSpec == InitStore /\ [][NextStore]_vars

(***************************************************************************)
(* C15                                                                     *)
(***************************************************************************)
\* the values of the records the Service holds
Held(fr, hp) == [i \in 1..Len(fr) |-> hp[fr[i]]]

\* C15: load_data_from_file and save_data_to_file never raise and return
\* false whenever the Repository's call fails; a load that fails leaves the
\* records and source_filename as they were; a load that succeeds puts the
\* file's records in place of the list and makes the path the
\* source_filename; no other step changes source_filename.
C15_LoadSaveNeverRaise ==
    [][
        /\ call'.op = "load_data_from_file" =>
            LET r == load_records_from_csv(files[result'.path],
                                           result'.max_records)
            IN  /\ ~result'.raised
                /\ result'.ok = ~r.raised
                /\ r.raised =>
                      /\ farm_records' = farm_records
                      /\ heap' = heap
                      /\ source_filename' = source_filename
                /\ ~r.raised =>
                      /\ Held(farm_records', heap') = r.records
                      /\ \A i \in 1..Len(farm_records') :
                            farm_records'[i] \notin Refs
                      /\ source_filename' = result'.path
        /\ call'.op = "save_data_to_file" =>
            LET r == save_records_to_csv(farm_records, heap,
                                         files[result'.path])
            IN  /\ ~result'.raised
                /\ r.raised => ~result'.ok
                /\ ~r.raised => result'.ok = r.ret
                /\ farm_records' = farm_records
        /\ call'.op # "load_data_from_file" =>
              source_filename' = source_filename
      ]_vars

\* a load has failed after an earlier one had filled the Service
C15_Witness ==
    /\ call.op = "load_data_from_file"
    /\ ~result.ok
    /\ farm_records # <<>>
    /\ source_filename = "a.csv"
    /\ result.path = "b.csv"

(***************************************************************************)
(* The Service's text search and index range                               *)
(***************************************************************************)
\* search_records that does not look at the description
search_records_three_fields(fr, hp, search_term) ==
    LET search_term_lower == Lower(search_term)
        Hit(p) == \/ Contains(Lower(hp[p[2]].geo), search_term_lower)
                  \/ Contains(Lower(hp[p[2]].ref_date), search_term_lower)
                  \/ Contains(Lower(hp[p[2]].value), search_term_lower)
    IN  SelectSeq([i \in 1..Len(fr) |-> <<i - 1, fr[i]>>], Hit)

\* FarmDataService.search_records: the (index, record) pairs it returns
search_records(fr, hp, search_term) ==
    LET search_term_lower == Lower(search_term)
        Hit(p) ==
            \/ Contains(Lower(hp[p[2]].geo), search_term_lower)
            \/ Contains(Lower(hp[p[2]].ref_date), search_term_lower)
            \/ Contains(Lower(hp[p[2]].area_production_farm_value),
                        search_term_lower)
            \/ Contains(Lower(hp[p[2]].value), search_term_lower)
    IN  SelectSeq([i \in 1..Len(fr) |-> <<i - 1, fr[i]>>], Hit)

Max(a, b) == IF a >= b THEN a ELSE b
Min(a, b) == IF a <= b THEN a ELSE b

\* get_records_by_range with an exclusive end index
get_records_by_range_exclusive(fr, start_index, end_index) ==
    LET start == Max(0, start_index)
        end == Min(Len(fr) - 1, end_index)
    IN  [k \in 1..(end - start) |-> <<start + k - 1, fr[start + k]>>]

\* FarmDataService.get_records_by_range: the (index, record) pairs it returns
get_records_by_range(fr, start_index, end_index) ==
    LET start == Max(0, start_index)
        end == Min(Len(fr) - 1, end_index)
    IN  [k \in 1..(end + 1 - start) |-> <<start + k - 1, fr[start + k]>>]

\* service.search_records(term)
SearchRecords(search_term) ==
    /\ call' = [NoCall EXCEPT !.op = "search_records"]
    /\ result' = [NoResult EXCEPT
                     !.term = search_term,
                     !.pairs = search_records(farm_records, heap, search_term)]
    /\ UNCHANGED <<heap, farm_records, engine_vars, store_vars>>

\* service.get_records_by_range(start, end)
GetRecordsByRange(start_index, end_index) ==
    /\ call' = [NoCall EXCEPT !.op = "get_records_by_range"]
    /\ result' = [NoResult EXCEPT
                     !.start_index = start_index, !.end_index = end_index,
                     !.pairs = get_records_by_range(farm_records, start_index,
                                                    end_index)]
    /\ UNCHANGED <<heap, farm_records, engine_vars, store_vars>>

\* records whose searched and unsearched fields hold different texts
QueryPool ==
    << FarmDataRecord([geo |-> <<"a">>, ref_date |-> <<"1">>,
                       area_production_farm_value |-> <<"A", "b">>,
                       value |-> <<"2">>]),
       FarmDataRecord([geo |-> <<"B">>, ref_date |-> <<"2">>,
                       value |-> <<"1", "0">>]),
       FarmDataRecord([area_production_farm_value |-> <<"b", "a">>,
                       dguid |-> <<"9">>]),
       FarmDataRecord([geo |-> <<"a", "B">>, uom |-> <<"9">>]) >>

\* the terms a caller searches for
Terms == {<<>>, <<"b">>, <<"A", "B">>, <<"1">>, <<"9">>, <<"b", "a">>}

\* a Service that holds any list of up to MaxLen of these records
InitQuery ==
    /\ heap = [o \in Refs |-> QueryPool[o]]
    /\ farm_records \in UNION {[1..k -> Refs] : k \in 0..MaxLen}
    /\ call = NoCall
    /\ InitOthers

NextQuery ==
    \/ \E search_term \in Terms : SearchRecords(search_term)
    \/ \E start_index, end_index \in (0 - 2)..(MaxLen + 1) :
          GetRecordsByRange(start_index, end_index)
    \/ DeleteRecord(0)

QuerySpec == InitQuery /\ [][NextQuery]_vars

(***************************************************************************)
(* C16, C17                                                                *)
(***************************************************************************)
\* the fields search_records looks at
SearchedFields == {"geo", "ref_date", "area_production_farm_value", "value"}

\* the positions of the records a term is found in
Found(fr, hp, term) ==
    {i \in 0..(Len(fr) - 1) :
        \E f \in SearchedFields : Contains(Lower(hp[fr[i + 1]][f]), Lower(term))}

\* s lists its pairs by ascending index
Ascending(s) == \A k \in 1..(Len(s) - 1) : s[k][1] < s[k + 1][1]

C17_RecordsByRange ==
    [][call'.op = "get_records_by_range" =>
          LET lo == IF result'.start_index > 0 THEN result'.start_index ELSE 0
              hi == IF result'.end_index < Len(farm_records) - 1
                    THEN result'.end_index ELSE Len(farm_records) - 1
          IN  /\ Ascending(result'.pairs)
              /\ {result'.pairs[k] : k \in 1..Len(result'.pairs)}
                 = {<<i, farm_records[i + 1]>> : i \in lo..hi}
              /\ lo > hi => result'.pairs = <<>>
              /\ ~result'.raised
              /\ farm_records' = farm_records
              /\ heap' = heap
      ]_vars

\* a range that was clamped at both ends has returned the whole list
C17_Witness ==
    /\ call.op = "get_records_by_range"
    /\ result.start_index < 0
    /\ result.end_index > Len(farm_records) - 1
    /\ Len(farm_records) = MaxLen
    /\ Len(result.pairs) = MaxLen

(***************************************************************************)
(* A search session over a snapshot                                        *)
(***************************************************************************)
\* the conditions of the session: text and numeric operators, a value that
\* is not a number, a column the table does not have
GeoIsA == SearchCondition("GEO", "EQUALS", <<"A">>, FALSE)
ValueAboveOne == SearchCondition("VALUE", "GREATER_THAN", <<"1">>, FALSE)
ValueUpToA == SearchCondition("VALUE", "LESS_EQUAL", <<"a">>, FALSE)
DateStartsOne == SearchCondition("REF_DATE", "STARTSWITH", <<"1">>, TRUE)
NoSuchColumn == SearchCondition("NOPE", "EQUALS", <<"1">>, FALSE)

\* the condition lists the session submits
ConditionLists ==
    {<<GeoHasB>>, <<GeoHasB, ValueAboveOne>>, <<DateStartsOne, ValueUpToA>>,
     <<GeoIsA, ValueAboveOne, NoSuchColumn>>}

\* the Service's lists the engine is built from
SnapshotLists ==
    {<<>>} \cup {[i \in 1..MaxLen |-> ((i + k) % Len(Pool)) + 1] : k \in Refs}

\* a SearchEngine just built from what the Service holds
InitSearch ==
    /\ heap = [o \in Refs |-> Pool[o]]
    /\ farm_records \in SnapshotLists
    /\ call = NoCall
    /\ df = from_records(farm_records, heap)
    /\ last_results = NoneTable
    /\ search_history = <<>>
    /\ files = [p \in Paths |-> NoFile]
    /\ source_filename = NoneName
    /\ result = NoResult

NextSearch ==
    \/ \E conditions \in ConditionLists, boolean_op \in {"AND", "OR"},
          refine_previous \in BOOLEAN :
          Search(conditions, boolean_op, refine_previous)
    \/ \E refine_previous \in BOOLEAN : Search(<<>>, "AND", refine_previous)
    \/ ClearResults

SearchSpec == InitSearch /\ [][NextSearch]_vars

(***************************************************************************)
(* C18, C19, C20                                                           *)
(***************************************************************************)
\* a row satisfies a condition
Satisfies(row, condition, hp) ==
    /\ condition.column \in Columns
    /\ CellMatches(Cells(row, hp)[condition.column], condition)

\* the rows of a table that satisfy every condition (AND) or at least one (OR),
\* in the table's order
Selected(rows, conditions, boolean_op, hp) ==
    LET Keep(row) ==
            IF boolean_op = "AND"
            THEN \A k \in 1..Len(conditions) : Satisfies(row, conditions[k], hp)
            ELSE \E k \in 1..Len(conditions) : Satisfies(row, conditions[k], hp)
    IN  SelectSeq(rows, Keep)

\* C18: search with a non-empty condition list returns exactly the rows of
\* the base table that satisfy every condition under AND, and at least one
\* condition under OR, in the base table's order; the one operator stands
\* between all conditions.
C18_AndOr ==
    [][(call'.op = "search" /\ result'.conditions # <<>>) =>
          /\ ~result'.table.none
          /\ result'.table.rows
             = Selected(SearchBase(df, last_results, result'.refine_previous),
                        result'.conditions, result'.boolean_op, heap)
      ]_vars

\* a search with three conditions under OR has returned some rows of a full
\* table and left others out, and no row satisfies all three
C18_Witness ==
    /\ call.op = "search"
    /\ Len(result.conditions) = 3
    /\ result.boolean_op = "OR"
    /\ ~result.refine_previous
    /\ Len(df) = MaxLen
    /\ result.table.rows # <<>>
    /\ Len(result.table.rows) < Len(df)
    /\ Selected(df, result.conditions, "AND", heap) = <<>>

\* the single conditions tried on every state of the engine
SingleConditions ==
    {GeoHasB, GeoIsA, ValueAboveOne, ValueUpToA, DateStartsOne, NoSuchColumn,
     ValueIsNine}

\* C19: from any state of the engine, search([c], AND) and search([c], OR)
\* return the same rows and leave the same last results, for every single
\* condition c, refining or not.
C19_SingleCondition ==
    \A c \in SingleConditions, refine_previous \in BOOLEAN :
        LET and == search(df, last_results, search_history, <<c>>, "AND",
                          refine_previous, heap)
            or == search(df, last_results, search_history, <<c>>, "OR",
                         refine_previous, heap)
        IN  /\ and.out = or.out
            /\ and.last_results = or.last_results

\* a search with one condition under OR has returned some rows and left
\* others out, and the same search under AND would have returned rows too
C19_Witness ==
    /\ call.op = "search"
    /\ Len(result.conditions) = 1
    /\ result.boolean_op = "OR"
    /\ result.table.rows # <<>>
    /\ Len(result.table.rows) < Len(df)
    /\ last_results = result.table

\* every row of s is a row of t
RowsWithin(s, t) ==
    \A i \in 1..Len(s) : \E j \in 1..Len(t) : s[i] = t[j]

\* C20: with refine_previous and last results present, search evaluates the
\* conditions over the rows of the last results only, so what it returns lies
\* within the previous result; without refine_previous, or with no last
\* results, it evaluates them over the full snapshot.  Either way the last
\* results become what was returned.
C20_RefinePrevious ==
    [][call'.op = "search" =>
          /\ (result'.conditions # <<>>
                /\ result'.refine_previous /\ ~last_results.none) =>
                /\ result'.table.rows
                   = Selected(last_results.rows, result'.conditions,
                              result'.boolean_op, heap)
                /\ RowsWithin(result'.table.rows, last_results.rows)
          /\ (result'.conditions # <<>>
                /\ ~(result'.refine_previous /\ ~last_results.none)) =>
                result'.table.rows
                = Selected(df, result'.conditions, result'.boolean_op, heap)
          /\ last_results' = result'.table
      ]_vars

\* a refining search has returned fewer rows than the same conditions select
\* from the full snapshot
C20_Witness ==
    /\ call.op = "search"
    /\ result.refine_previous
    /\ result.conditions # <<>>
    /\ Len(search_history) = MaxHistory
    /\ Len(result.table.rows)
       < Len(Selected(df, result.conditions, result.boolean_op, heap))

(***************************************************************************)
(* C21, C22                                                                *)
(***************************************************************************)
\* C21: search with an empty condition list returns the base table as it is:
\* every row of the last results when refine_previous is set and there are
\* last results, every row of the snapshot otherwise, in the same order.
C21_EmptyConditions ==
    [][(call'.op = "search" /\ result'.conditions = <<>>) =>
          /\ ~result'.table.none
          /\ result'.table.rows
             = IF result'.refine_previous /\ ~last_results.none
               THEN last_results.rows
               ELSE df
      ]_vars

\* a refining search with no conditions has returned the rows of an earlier
\* result that had left rows of the snapshot out
C21_Witness ==
    /\ call.op = "search"
    /\ result.conditions = <<>>
    /\ result.refine_previous
    /\ search_history # <<>>
    /\ result.table.rows # <<>>
    /\ Len(result.table.rows) < Len(df)

\* C22: a search session is EMPTY (no last results) after construction and
\* after clear_results, and HAS_RESULTS after any search: every search ends
\* in HAS_RESULTS, only clear_results leads back to EMPTY, only a search
\* leaves EMPTY, and clear_results empties the history too.
C22_TwoStates ==
    /\ last_results.none
    /\ search_history = <<>>
    /\ [][
          /\ call'.op = "search" => ~last_results'.none
          /\ call'.op = "clear_results" =>
                last_results'.none /\ search_history' = <<>>
          /\ (last_results'.none /\ ~last_results.none) =>
                call'.op = "clear_results"
          /\ (~last_results'.none /\ last_results.none) => call'.op = "search"
       ]_vars

\* clear_results has ended a session that held results and a full history
C22_Witness ==
    /\ call.op = "clear_results"
    /\ result.cleared = MaxHistory
    /\ last_results.none
    /\ search_history = <<>>

(***************************************************************************)
(* Numeric conditions over a column of numbers and other texts             *)
(***************************************************************************)
\* records whose value is a number, a negative number, a word or empty
NumericPool ==
    << FarmDataRecord([geo |-> <<"a">>, value |-> <<"1", "0", "0", "0">>]),
       FarmDataRecord([geo |-> <<"b">>, value |-> <<"2", "0", "0", "0">>]),
       FarmDataRecord([geo |-> <<"a">>, value |-> <<"-", "1">>]),
       FarmDataRecord([geo |-> <<"b">>, value |-> <<"a">>]),
       FarmDataRecord([geo |-> <<"a">>]) >>

NumericOperators ==
    {"GREATER_THAN", "LESS_THAN", "GREATER_EQUAL", "LESS_EQUAL"}

\* the values the conditions compare with: numbers, a word, the empty text
NumericValues ==
    {<<"1", "2", "0", "0">>, <<"9">>, <<"-", "1">>, <<"a">>, <<>>}

\* an engine just built from a list of these records
InitNumeric ==
    /\ heap = [o \in 1..Len(NumericPool) |-> NumericPool[o]]
    /\ farm_records \in {<<>>} \cup [1..MaxLen -> 1..Len(NumericPool)]
    /\ call = NoCall
    /\ df = from_records(farm_records, heap)
    /\ last_results = NoneTable
    /\ search_history = <<>>
    /\ files = [p \in Paths |-> NoFile]
    /\ source_filename = NoneName
    /\ result = NoResult

NextNumeric ==
    \/ /\ search_history = <<>>
       /\ \E operator \in NumericOperators, value \in NumericValues :
             Search(<<SearchCondition("VALUE", operator, value, FALSE)>>,
                    "AND", FALSE)
    \/ ClearResults

NumericSpec == InitNumeric /\ [][NextNumeric]_vars

(***************************************************************************)
(* C23                                                                     *)
(***************************************************************************)
\* a op b for the four ordering operators, on numbers
NumberCompares(a, operator, b) ==
    CASE operator = "GREATER_THAN" -> a > b
      [] operator = "LESS_THAN" -> a < b
      [] operator = "GREATER_EQUAL" -> a >= b
      [] operator = "LESS_EQUAL" -> a <= b

\* a op b for the four ordering operators, on str
TextCompares(a, operator, b) ==
    CASE operator = "GREATER_THAN" -> StrLess(b, a)
      [] operator = "LESS_THAN" -> StrLess(a, b)
      [] operator = "GREATER_EQUAL" -> ~StrLess(a, b)
      [] operator = "LESS_EQUAL" -> ~StrLess(b, a)

\* the last step was a search with one numeric condition on VALUE
NumericSearchStep ==
    /\ call.op = "search"
    /\ Len(result.conditions) = 1
    /\ result.conditions[1].operator \in NumericOperators
    /\ result.conditions[1].column = "VALUE"

\* row i of the snapshot is among the rows returned
Returned(i) == \E j \in 1..Len(result.table.rows) : result.table.rows[j] = df[i]

\* C23 as stated: with GT, LT, GE or LE a row whose text is no number never
\* matches, and a row whose text is a number matches iff its number compares
\* accordingly with the condition value.
C23_NumericOnly ==
    NumericSearchStep =>
        \A i \in 1..Len(df) :
            LET cell == df[i].cells["VALUE"]
                c == result.conditions[1]
            IN  Returned(i) <=>
                    /\ PyFloat(cell).ok
                    /\ PyFloat(c.value).ok
                    /\ NumberCompares(PyFloat(cell).val, c.operator,
                                      PyFloat(c.value).val)

\* C23: with GT, LT, GE or LE and a condition value that is a number, a row
\* whose text is no number (the empty text included) never matches and a row
\* whose text is a number matches iff its number compares accordingly; with a
\* condition value that is no number, a row matches iff its text compares
\* accordingly with the value as str.  Nothing is raised either way.
C23_NumericOperators ==
    NumericSearchStep =>
        /\ ~result.raised
        /\ \A i \in 1..Len(df) :
              LET cell == df[i].cells["VALUE"]
                  c == result.conditions[1]
              IN  Returned(i) <=>
                      IF PyFloat(c.value).ok
                      THEN /\ PyFloat(cell).ok
                           /\ NumberCompares(PyFloat(cell).val, c.operator,
                                             PyFloat(c.value).val)
                      ELSE TextCompares(cell, c.operator, c.value)

\* value > 1200 has returned the 2000 row and left out the 1000 row, a row
\* with a word and a row with nothing
C23_Witness ==
    /\ NumericSearchStep
    /\ result.conditions[1].operator = "GREATER_THAN"
    /\ result.conditions[1].value = <<"1", "2", "0", "0">>
    /\ Len(result.table.rows) = 1
    /\ result.table.rows[1].cells["VALUE"] = <<"2", "0", "0", "0">>
    /\ \E i \in 1..Len(df) : df[i].cells["VALUE"] = <<"a">>
    /\ \E i \in 1..Len(df) : df[i].cells["VALUE"] = <<>>

(***************************************************************************)
(* Conditions on a column the table does not have                          *)
(***************************************************************************)
ComparisonOperator ==
    {"EQUALS", "NOT_EQUALS", "GREATER_THAN", "LESS_THAN", "GREATER_EQUAL",
     "LESS_EQUAL", "CONTAINS", "REGEX", "STARTSWITH", "ENDSWITH"}

\* a condition on a column that is not there, alone, before and after a
\* condition on a column that is
MissingColumnLists ==
    UNION {{<<SearchCondition("NOPE", operator, <<"1">>, FALSE)>>,
            <<GeoHasB, SearchCondition("NOPE", operator, <<"1">>, FALSE)>>,
            <<SearchCondition("NOPE", operator, <<>>, TRUE), GeoHasB>>} :
           operator \in ComparisonOperator}

\* an engine just built from any list of up to MaxLen records
InitColumn ==
    /\ heap = [o \in Refs |-> Pool[o]]
    /\ farm_records \in UNION {[1..k -> Refs] : k \in 0..MaxLen}
    /\ call = NoCall
    /\ df = from_records(farm_records, heap)
    /\ last_results = NoneTable
    /\ search_history = <<>>
    /\ files = [p \in Paths |-> NoFile]
    /\ source_filename = NoneName
    /\ result = NoResult

NextColumn ==
    \/ /\ search_history = <<>>
       /\ \E conditions \in MissingColumnLists, boolean_op \in {"AND", "OR"} :
             Search(conditions, boolean_op, FALSE)
    \/ ClearResults

ColumnSpec == InitColumn /\ [][NextColumn]_vars

(***************************************************************************)
(* C24                                                                     *)
(***************************************************************************)
\* the conditions of a list whose column the table has
OnKnownColumns(conditions) ==
    LET Known(c) == c.column \in Columns IN SelectSeq(conditions, Known)

\* C24: a condition on a column the table does not have matches no row,
\* whatever its operator, and raises nothing: alone or under AND the search
\* returns no row, and under OR it returns exactly the rows the other
\* conditions select.
C24_MissingColumn ==
    (/\ call.op = "search"
     /\ \E k \in 1..Len(result.conditions) :
           result.conditions[k].column \notin Columns) =>
        /\ ~result.raised
        /\ ~result.table.none
        /\ result.table.rows
           = IF result.boolean_op = "AND" \/ Len(result.conditions) = 1
             THEN <<>>
             ELSE Selected(df, OnKnownColumns(result.conditions), "OR", heap)

\* a search under OR with NOT_EQUALS on a missing column has returned the
\* rows of the other condition and left rows out
C24_Witness ==
    /\ call.op = "search"
    /\ result.boolean_op = "OR"
    /\ Len(result.conditions) = 2
    /\ result.conditions[2].column \notin Columns
    /\ result.conditions[2].operator = "NOT_EQUALS"
    /\ result.table.rows # <<>>
    /\ Len(result.table.rows) < Len(df)

(***************************************************************************)
(* SearchUI                                                                *)
(*   The user's answers (the conditions, the operator, the answer to the   *)
(*   refine prompt, the post-search option) are the inputs of the steps.   *)
(***************************************************************************)
\* SearchUI.initialize_search_engine: whether it succeeds, and the engine the
\* UI holds afterwards
initialize_search_engine(fr, hp, dfv, last, history) ==
    IF Len(fr) = 0
    THEN [ret |-> FALSE, df |-> dfv, last_results |-> last,
          search_history |-> history]
    ELSE [ret |-> TRUE, df |-> from_records(get_all_records(fr).out, hp),
          last_results |-> NoneTable, search_history |-> <<>>]

\* the refine_previous handle_search_interactive passes: the user's answer to
\* the refine prompt, which is shown only when the engine has last results
RefineAsked(engine, answer) ==
    IF ~get_last_results(engine.last_results).none THEN answer ELSE FALSE

\* the search handle_search_interactive runs once the conditions are entered
SearchAsEntered(engine, conditions, boolean_op, answer, hp) ==
    search(engine.df, engine.last_results, engine.search_history, conditions,
           boolean_op, RefineAsked(engine, answer), hp)

\* SearchUI.handle_search_interactive up to its post-search prompt: whether a
\* search ran, the engine afterwards (df and the fields of found), the
\* refine_previous it passed and the table it displayed (found.out)
handle_search_interactive(fr, hp, dfv, last, history, conditions, boolean_op, answer) ==
    IF ~initialize_search_engine(fr, hp, dfv, last, history).ret
    THEN [searched |-> FALSE, df |-> dfv, refine |-> FALSE,
          found |-> [last_results |-> last, search_history |-> history,
                     out |-> NoneTable, alias |-> FALSE]]
    ELSE [searched |-> TRUE,
          df |-> initialize_search_engine(fr, hp, dfv, last, history).df,
          refine |-> RefineAsked(
                        initialize_search_engine(fr, hp, dfv, last, history),
                        answer),
          found |-> SearchAsEntered(
                        initialize_search_engine(fr, hp, dfv, last, history),
                        conditions, boolean_op, answer, hp)]

\* display_post_search_options is waiting for the user's choice: the last
\* search displayed some rows
AtPostSearchOptions ==
    /\ call.op \in {"handle_search_interactive", "post_search_option_4"}
    /\ ~result.table.none
    /\ result.table.rows # <<>>

\* what a run of handle_search_interactive does to the state; op names the
\* place it was started from
RunSearchInteractive(op, conditions, boolean_op, answer) ==
    LET r == handle_search_interactive(farm_records, heap, df, last_results,
                                       search_history, conditions, boolean_op,
                                       answer)
    IN  /\ df' = r.df
        /\ last_results' = r.found.last_results
        /\ search_history' = r.found.search_history
        /\ call' = [NoCall EXCEPT !.op = op, !.ok = r.searched]
        /\ result' = [NoResult EXCEPT !.conditions = conditions,
                                      !.boolean_op = boolean_op,
                                      !.refine_previous = r.refine,
                                      !.table = r.found.out]
        /\ UNCHANGED <<heap, farm_records, store_vars>>

\* the search entry of the main menu
HandleSearchInteractive(conditions, boolean_op, answer) ==
    /\ ~AtPostSearchOptions
    /\ RunSearchInteractive("handle_search_interactive", conditions,
                            boolean_op, answer)

\* post-search option 4, 'Refine search (search within results)'
PostSearchRefine(conditions, boolean_op, answer) ==
    /\ AtPostSearchOptions
    /\ RunSearchInteractive("post_search_option_4", conditions, boolean_op,
                            answer)

\* post-search option 5, 'Clear results and start new search'
PostSearchClear ==
    /\ AtPostSearchOptions
    /\ last_results' = clear_results.last_results
    /\ search_history' = clear_results.search_history
    /\ call' = [NoCall EXCEPT !.op = "post_search_option_5"]
    /\ result' = [NoResult EXCEPT !.cleared = Len(search_history)]
    /\ UNCHANGED <<heap, farm_records, df, store_vars>>

\* post-search option 6, 'Return to main menu'
PostSearchReturn ==
    /\ AtPostSearchOptions
    /\ call' = [NoCall EXCEPT !.op = "post_search_option_6"]
    /\ result' = NoResult
    /\ UNCHANGED <<heap, farm_records, engine_vars, store_vars>>

\* the condition lists the user enters
EnteredLists == {<<GeoHasB>>, <<GeoIsA>>, <<ValueAboveOne, GeoHasB>>}

NextUI ==
    \/ \E conditions \in EnteredLists, boolean_op \in {"AND", "OR"},
          answer \in BOOLEAN :
          \/ HandleSearchInteractive(conditions, boolean_op, answer)
          \/ PostSearchRefine(conditions, boolean_op, answer)
    \/ PostSearchClear
    \/ PostSearchReturn

UISpec == InitLoaded /\ [][NextUI]_vars

(***************************************************************************)
(* C25                                                                     *)
(***************************************************************************)
\* C25: after a search has displayed results, post-search option 4 runs the
\* next search within them: the rows it returns are among the rows displayed
\* before.
C25_OptionFourRefines ==
    [][call'.op = "post_search_option_4" =>
          RowsWithin(result'.table.rows, result.table.rows)
      ]_vars

(***************************************************************************)
(* C26                                                                     *)
(***************************************************************************)
\* C26: sort_records only permutes: after any call, successful or not, in
\* either direction and for any field name, the list holds the same record
\* objects, each as many times as before, and record_count is the same; the
\* records themselves are not touched.
C26_SortPermutes ==
    [][call'.op = "sort_records" =>
          /\ \A o \in Refs : Count(farm_records', o) = Count(farm_records, o)
          /\ record_count(farm_records') = record_count(farm_records)
          /\ heap' = heap
      ]_vars

\* a descending sort by geo has ordered a list that holds one record twice
\* and another record with the same key ('b' and 'B')
C26_Witness ==
    /\ call.op = "sort_records"
    /\ call.ok
    /\ call.sort_by = "geo"
    /\ ~call.ascending
    /\ Len(farm_records) = MaxLen
    /\ Count(farm_records, 1) = 2
    /\ Count(farm_records, 2) = 1

(***************************************************************************)
(* A caller that changes the table search returned                         *)
(***************************************************************************)
\* the caller holds the table the last search returned
HoldsReturned ==
    /\ call.op \in {"search", "drop_returned_row"}
    /\ ~result.table.none

\* results.drop(results.index[0], inplace=True) on the table search returned:
\* when that table is the object in _last_results, the engine's last results
\* lose the row too
DropReturnedRow ==
    /\ HoldsReturned
    /\ result.table.rows # <<>>
    /\ result' = [result EXCEPT !.table = Table(Tail(result.table.rows))]
    /\ last_results' = IF result.alias THEN Table(Tail(result.table.rows))
                       ELSE last_results
    /\ call' = [NoCall EXCEPT !.op = "drop_returned_row"]
    /\ UNCHANGED <<heap, farm_records, df, search_history, store_vars>>

NextReturned ==
    \/ \E conditions \in {<<>>, <<GeoHasB>>, <<DateStartsOne>>},
          refine_previous \in BOOLEAN :
          Search(conditions, "AND", refine_previous)
    \/ DropReturnedRow
    \/ ClearResults

ReturnedSpec == InitSearch /\ [][NextReturned]_vars

(***************************************************************************)
(* C27                                                                     *)
(***************************************************************************)
\* C27: the table search returns is independent of what the engine keeps:
\* when the caller changes it afterwards, get_last_results returns what it
\* returned before and a later refining search finds what it found before.
C27_ReturnedIndependent ==
    [][call'.op = "drop_returned_row" =>
          /\ get_last_results(last_results') = get_last_results(last_results)
          /\ \A conditions \in {<<>>, <<GeoHasB>>} :
                search(df', last_results', search_history', conditions, "AND",
                       TRUE, heap').out
                = search(df, last_results, search_history, conditions, "AND",
                         TRUE, heap).out
      ]_vars

(***************************************************************************)
(* C28, C29                                                                *)
(***************************************************************************)
\* s is t with some rows left out: the rows of s are rows of t, in t's order
IsSubSequence(s, t) ==
    \E at \in [1..Len(s) -> 1..Len(t)] :
        /\ \A i \in 1..Len(s) : s[i] = t[at[i]]
        /\ \A i \in 1..(Len(s) - 1) : at[i] < at[i + 1]

\* C28: after any sequence of search and clear_results calls the snapshot is
\* the table the engine was constructed with, and the last results, when
\* there are any, are rows of the snapshot in the snapshot's order.
C28_SnapshotKept ==
    /\ df = from_records(farm_records, heap)
    /\ ~last_results.none => IsSubSequence(last_results.rows, df)

\* two searches in a row have left last results that skip a row of the
\* snapshot between two rows they keep
C28_Witness ==
    /\ call.op = "search"
    /\ Len(search_history) = MaxHistory
    /\ Len(last_results.rows) = 2
    /\ last_results.rows[2].index - last_results.rows[1].index = 2

\* C29: the history starts empty; a search with conditions appends its
\* conditions and its operator to it; a search with an empty condition list
\* sets the last results and leaves the history alone; clear_results empties
\* it.  So the history lists, in call order, the searches with conditions
\* made since construction or the last clear_results.
C29_History ==
    /\ search_history = <<>>
    /\ [][
          /\ (call'.op = "search" /\ result'.conditions # <<>>) =>
                search_history'
                = Append(search_history,
                         <<result'.conditions, result'.boolean_op>>)
          /\ (call'.op = "search" /\ result'.conditions = <<>>) =>
                /\ search_history' = search_history
                /\ ~last_results'.none
          /\ call'.op = "clear_results" => search_history' = <<>>
       ]_vars

\* a search with an empty list has followed two different searches with
\* conditions, and the history still holds those two
C29_Witness ==
    /\ call.op = "search"
    /\ result.conditions = <<>>
    /\ Len(search_history) = MaxHistory
    /\ search_history[1] # search_history[2]

(***************************************************************************)
(* C30                                                                     *)
(***************************************************************************)
\* C30: for every sortable field, direction and n >= 0,
\* get_top_n_records(n, field, ascending) returns the first n records, in
\* the same order, of the list sort_records(field, ascending) would leave.
C30_TopNAgreesWithSort ==
    (/\ call.op = "get_top_n_records"
     /\ call.n >= 0
     /\ call.sort_by \in valid_fields) =>
        LET sorted == sort_records(farm_records, heap, call.sort_by,
                                   call.ascending).records
        IN  /\ ~call.raised
            /\ call.out = SubSeq(sorted, 1, Min(call.n, Len(sorted)))
====
